---------------------------- MODULE Spec2Model ----------------------------
(***************************************************************************)
(* Klaviyo dashboard backend: the report handlers, the authentication      *)
(* middleware and the event attribution helpers, as state machines.        *)
(*                                                                         *)
(* Strings whose letter case or content the code inspects (metric names,   *)
(* flow statuses) are sequences of character codes, so that toLowerCase()  *)
(* and includes() are computed and not assumed.  Opaque identifiers        *)
(* (campaign, flow, message, metric ids) are TLA+ strings.  Revenue values *)
(* are whole currency units.                                               *)
(***************************************************************************)
EXTENDS Integers, Sequences, FiniteSets, TLC

VARIABLES
    acct,     \* the upstream Klaviyo account the request reads (never written)
    faults,   \* how many more upstream calls may still fail in this run
    rt,       \* locals of the GET /api/revenue/total handler, with its position
    sv,       \* locals of the events-API handlers (/api/campaigns, by-status)
    req,      \* the Authorization headers of the incoming requests: of the summary
              \* or events request, and of the values-report request
    users,    \* the users file of the authenticated backend
    rp,       \* locals of the values-report handlers (/api/campaigns, /api/flows)
    file,     \* users.json on disk: the writes in progress and the last writer
    call,     \* a helper function under application: its arguments and its result
    mg,       \* the calls of the account functions of auth.js, and the clock they read
    fe        \* the frontend session: AuthProvider's state and the Dashboard's requests

vars == <<acct, faults, rt, sv, req, users, rp, file, call, mg, fe>>

-----------------------------------------------------------------------------
(* Bounds of the model *)

\* at most this many Placed Order events in the account
MaxOrders == 2
\* engagement counts per message or flow range over 0..MaxCount
MaxCount == 2
\* at most this many upstream calls fail during one request
MaxFailures == 2

-----------------------------------------------------------------------------
(* JavaScript strings *)

\* "Placed Order"
StrPlacedOrder == <<80,108,97,99,101,100,32,79,114,100,101,114>>
\* "placed order"
StrPlacedOrderLower == <<112,108,97,99,101,100,32,111,114,100,101,114>>
\* "placed-order"
StrPlacedOrderDash == <<112,108,97,99,101,100,45,111,114,100,101,114>>
\* "Opened Email"
StrOpenedEmail == <<79,112,101,110,101,100,32,69,109,97,105,108>>
\* "Clicked Email"
StrClickedEmail == <<67,108,105,99,107,101,100,32,69,109,97,105,108>>
\* "Received Email"
StrReceivedEmail == <<82,101,99,101,105,118,101,100,32,69,109,97,105,108>>
\* "draft"
StrDraft == <<100,114,97,102,116>>
\* "Draft"
StrDraftCapital == <<68,114,97,102,116>>
\* "DRAFT"
StrDraftUpper == <<68,82,65,70,84>>
\* "live"
StrLive == <<108,105,118,101>>
\* "Sent"
StrSent == <<83,101,110,116>>
\* "sent"
StrSentLower == <<115,101,110,116>>

\* String.prototype.toLowerCase on ASCII: A..Z (65..90) become a..z
ToLowerCase(s) == [i \in DOMAIN s |-> IF s[i] \in 65..90 THEN s[i] + 32 ELSE s[i]]

\* String.prototype.includes
Includes(s, t) ==
    \E i \in 0..(Len(s) - Len(t)) : SubSeq(s, i + 1, i + Len(t)) = t

\* the value of an absent id (null / undefined)
Null == "null"

-----------------------------------------------------------------------------
(* JavaScript objects used as maps, and array helpers *)

EmptyMap == [k \in {} |-> 0]

\* map[key] || 0
Get(map, key) == IF key \in DOMAIN map THEN map[key] ELSE 0

\* map[key] = (map[key] || 0) + v
AddTo(map, key, v) == (key :> (Get(map, key) + v)) @@ map

RECURSIVE SumSeq(_)
\* array.reduce((acc, v) => acc + v, 0)
SumSeq(s) == IF s = <<>> THEN 0 ELSE Head(s) + SumSeq(Tail(s))

\* array.find(test): the first element passing the test, or NoMetric
NoMetric == [id |-> Null, name |-> <<>>]

FirstIndex(idx) == CHOOSE i \in idx : \A j \in idx : i <= j


-----------------------------------------------------------------------------
(* The upstream Klaviyo API, as far as the handlers read it.               *)
(* An account holds: metrics (id, name), Placed Order events (value and    *)
(* the two attribution dimensions), the campaigns of each channel (id,     *)
(* updated_at, campaign-message relationships), the flows (id, status) and *)
(* the engagement event counts per $message / $flow value.  Time is in     *)
(* ticks relative to the request (now = 0).                                *)

\* clock ticks per day: fine enough to tell 30 days from 31
TicksPerDay == 2

\* GET /metrics/
UpstreamMetrics(a) == a.metrics

\* the value of a grouping dimension on a Placed Order event
OrderDim(o, by) ==
    CASE by = "$attributed_flow" -> o.attributed_flow
      [] by = "$attributed_message" -> o.attributed_message
      [] OTHER -> ""

\* the non-date part of an aggregate filter
PassesFilter(v, filter) ==
    CASE filter.kind = "equals" -> v = filter.value
      [] filter.kind = "notEmpty" -> v # ""
      [] OTHER -> TRUE

NoFilter == [kind |-> "none", value |-> ""]
NotEmpty == [kind |-> "notEmpty", value |-> ""]
Equals(v) == [kind |-> "equals", value |-> v]

RECURSIVE Dedup(_)
\* the distinct values of a sequence, in order of first appearance
Dedup(s) ==
    IF s = <<>> THEN <<>>
    ELSE LET rest == Dedup(SubSeq(s, 1, Len(s) - 1))
             last == s[Len(s)]
         IN IF \E i \in DOMAIN rest : rest[i] = last THEN rest ELSE Append(rest, last)

\* POST /metric-aggregates/ on the Placed Order metric: the events passing the
\* filter, grouped by the dimension; one measurement value per event
OrderAggregate(orders, measurement, by, filter) ==
    LET kept == SelectSeq(orders, LAMBDA o : PassesFilter(OrderDim(o, by), filter))
        Measure(evts) == [j \in DOMAIN evts |->
                            IF measurement = "sum_value" THEN evts[j].value ELSE 1]
        keys == Dedup([j \in DOMAIN kept |-> OrderDim(kept[j], by)])
    IN IF by = ""
       THEN << [dimensions |-> <<>>, values |-> Measure(kept)] >>
       ELSE [i \in DOMAIN keys |->
               [dimensions |-> << keys[i] >>,
                values |-> Measure(SelectSeq(kept, LAMBDA o : OrderDim(o, by) = keys[i]))]]

\* POST /metric-aggregates/ on an engagement metric, measurement count,
\* grouped by $message or by $flow: one group per key that has events
CountAggregate(table, keyOrder) ==
    LET keys == SelectSeq(keyOrder, LAMBDA k : k \in DOMAIN table /\ table[k] > 0)
    IN [i \in DOMAIN keys |-> [dimensions |-> << keys[i] >>, values |-> << table[keys[i]] >>]]

\* GET /campaigns/ with filter equals(messages.channel,ch),greater-than(updated_at,start)
UpstreamCampaigns(list, start) == SelectSeq(list, LAMBDA c : c.updated_at > start)

\* GET /flows/
UpstreamFlows(a) == a.flows

-----------------------------------------------------------------------------
(* The accounts the model draws from *)

MetricPO == [id |-> "mPO", name |-> StrPlacedOrder]
MetricPOLower == [id |-> "mPO", name |-> StrPlacedOrderLower]
MetricOE == [id |-> "mOE", name |-> StrOpenedEmail]
MetricCE == [id |-> "mCE", name |-> StrClickedEmail]
MetricRE == [id |-> "mRE", name |-> StrReceivedEmail]
\* "Placed Order Refund", "placed order" and "Opened Push" under ids of their own
MetricPORefund ==
    [id |-> "mPR", name |-> <<80,108,97,99,101,100,32,79,114,100,101,114,32,82,101,102,117,110,100>>]
MetricPOPlain == [id |-> "mPL", name |-> StrPlacedOrderLower]
MetricOpenedPush == [id |-> "mOP", name |-> <<79,112,101,110,101,100,32,80,117,115,104>>]

MetricLists ==
    { << MetricPO, MetricOE, MetricCE, MetricRE >>,
      << MetricOE, MetricPOLower, MetricCE, MetricRE >>,
      << MetricOE, MetricCE, MetricRE >>,
      << MetricPO, MetricRE >> }

\* Placed Order events: unattributed, campaign c1, flow f1, draft flow f2,
\* and one carrying both a campaign and a flow attribution
OrderUniverse ==
    << [id |-> "o1", value |-> 1,  attributed_message |-> "",   attributed_flow |-> ""],
       [id |-> "o2", value |-> 2,  attributed_message |-> "c1", attributed_flow |-> ""],
       [id |-> "o3", value |-> 4,  attributed_message |-> "",   attributed_flow |-> "f1"],
       [id |-> "o4", value |-> 8,  attributed_message |-> "",   attributed_flow |-> "f2"],
       [id |-> "o5", value |-> 16, attributed_message |-> "c1", attributed_flow |-> "f1"] >>

OrderLists ==
    { SelectSeq(OrderUniverse, LAMBDA o : o.id \in S) :
        S \in { T \in SUBSET { OrderUniverse[i].id : i \in DOMAIN OrderUniverse } :
                  Cardinality(T) <= MaxOrders } }

\* an event of the Events API: id, the event_properties the handlers read ("" when
\* the property is absent), $value, whether $event_id is present, the profile
\* relationship, the attributions relationship and the campaign relationship
NoEvent ==
    [id |-> "", message_interaction |-> "", attributed_campaign |-> "",
     attributed_message |-> "", message |-> "", campaign_id |-> "", Campaign_ID |-> "",
     attributed_flow |-> "", has_value |-> FALSE, value |-> 0, has_event_id |-> TRUE,
     profile |-> "", attributions |-> << >>, campaign |-> ""]

\* Placed Order events
EventP1 == [NoEvent EXCEPT !.id = "p1", !.message_interaction = "c1",
                           !.attributed_campaign = "c2", !.has_value = TRUE, !.value = 5]
EventP2 == [NoEvent EXCEPT !.id = "p2", !.attributed_campaign = "c1",
                           !.has_value = TRUE, !.value = 3]
EventP3 == [NoEvent EXCEPT !.id = "p3", !.message_interaction = "c2",
                           !.attributed_message = "c1", !.has_value = TRUE, !.value = 2]
EventP4 == [NoEvent EXCEPT !.id = "p4", !.has_value = TRUE, !.value = 7]
EventP5 == [NoEvent EXCEPT !.id = "p5", !.campaign_id = "c1", !.campaign = "c2"]
EventP6 == [NoEvent EXCEPT !.id = "p6", !.attributions = << "a1" >>, !.campaign = "c1"]
\* the attribution the Events API includes on request
AttributionA1 == [id |-> "a1", attributed_message |-> "", campaign_id |-> "c2",
                  message_id |-> "m9"]
\* Opened Email events
EventO1 == [NoEvent EXCEPT !.id = "o1", !.message_interaction = "c1", !.profile = "u1"]
EventO2 == [NoEvent EXCEPT !.id = "o2", !.message_interaction = "c1", !.profile = "u2"]
EventO3 == [NoEvent EXCEPT !.id = "o3", !.message_interaction = "c2", !.profile = "u1",
                           !.has_event_id = FALSE]
EventO4 == [NoEvent EXCEPT !.id = "o4", !.attributed_flow = "f1", !.profile = "u1"]
\* Clicked Email events
EventK1 == [NoEvent EXCEPT !.id = "k1", !.message_interaction = "c1",
                           !.has_value = TRUE, !.value = 4]
EventK2 == [NoEvent EXCEPT !.id = "k2", !.message_interaction = "c2"]

CampaignC1 == [id |-> "c1", status |-> StrSent, updated_at |-> -2, messages |-> << "m1", "m2" >>]
CampaignC2 == [id |-> "c2", status |-> StrDraftCapital, updated_at |-> -4, messages |-> << >>]
CampaignC3 == [id |-> "c3", status |-> StrSentLower, updated_at |-> -6, messages |-> << "m3" >>]
\* updated between 31 and 30 days before the request
CampaignC4 == [id |-> "c4", status |-> StrSent, updated_at |-> -(30 * TicksPerDay) - 1, messages |-> << "m4" >>]

EmailLists == { << CampaignC1 >>, << CampaignC1, CampaignC2 >>, << CampaignC1, CampaignC4 >> }
SmsLists == { << >>, << CampaignC3 >>, << CampaignC1 >> }

FlowF1 == [id |-> "f1", status |-> StrLive]
FlowF2 == [id |-> "f2", status |-> StrDraftCapital]
FlowF3 == [id |-> "f3", status |-> StrDraftUpper]

MessageKeys == << "m1", "m2", "m3", "m4", "c1", "c2", "c3", "c4" >>
FlowKeys == << "f1", "f2", "f3" >>
EngKeys == { "m1", "m2", "c2", "f1" }

ZeroTable == [k \in EngKeys |-> 0]
FixedEng == [opens    |-> [k \in EngKeys |-> IF k = "m1" THEN 2 ELSE 1],
             clicks   |-> [k \in EngKeys |-> IF k = "m2" THEN 1 ELSE 0],
             received |-> [k \in EngKeys |-> 2]]

EngTables ==
    { [opens |-> o, clicks |-> c, received |-> r] :
        o \in [EngKeys -> 0..MaxCount],
        c \in { [k \in EngKeys |-> IF k = "m1" THEN n ELSE 0] : n \in 0..MaxCount },
        r \in { [k \in EngKeys |-> n] : n \in 0..MaxCount } }

\* results[k].statistics of a values report
Stats(recipients, opens, clicks, conversions, conversion_value, conversion_uniques) ==
    [recipients |-> recipients, opens |-> opens, clicks |-> clicks,
     conversions |-> conversions, conversion_value |-> conversion_value,
     conversion_uniques |-> conversion_uniques]

\* the results of the values reports, by campaign or flow id: one result for c1,
\* none for c2, one per flow message for f1
ReportData ==
    ("c1" :> << Stats(2, 1, 1, 1, 5, 0) >>) @@ ("c2" :> << >>) @@
    ("c3" :> << Stats(3, 2, 1, 2, 6, 1) >>) @@
    ("f1" :> << Stats(2, 1, 0, 1, 4, 1), Stats(1, 1, 1, 0, 0, 0) >>)

BaseAccount ==
    [metrics |-> << MetricPO, MetricOE, MetricCE, MetricRE >>,
     orders |-> << OrderUniverse[2], OrderUniverse[3] >>,
     emailCampaigns |-> << CampaignC1, CampaignC2 >>,
     smsCampaigns |-> << CampaignC3 >>,
     flows |-> << FlowF1, FlowF2, FlowF3 >>,
     eng |-> FixedEng,
     placedEvents |-> << EventP1, EventP2 >>,
     openEvents |-> << EventO1, EventO2 >>,
     clickEvents |-> << EventK1 >>,
     included |-> << AttributionA1 >>,
     pageSize |-> 1,
     reports |-> ReportData]

\* the accounts that vary the metrics, the orders and the campaign lists
RevenueAccounts ==
    { [BaseAccount EXCEPT !.metrics = ms, !.orders = os,
                          !.emailCampaigns = ec, !.smsCampaigns = sc] :
        ms \in MetricLists, os \in OrderLists, ec \in EmailLists, sc \in SmsLists }

\* the accounts the failing upstream calls are tried on
FaultAccounts == { BaseAccount, [BaseAccount EXCEPT !.emailCampaigns = << >>] }

\* the accounts that vary the engagement counts
EngagementAccounts == { [BaseAccount EXCEPT !.eng = e] : e \in EngTables }

-----------------------------------------------------------------------------
(* GET /api/revenue/total: the pure parts of the handler *)

\* startDate.setDate(startDate.getDate() - 31): the start of the upstream window
WindowDays == 31
\* thirtyDaysAgo.setDate(thirtyDaysAgo.getDate() - 30): the local freshness filter
FreshDays == 30

\* getLast30Days().start, with now = 0
WindowStart == -(WindowDays * TicksPerDay)

\* metrics.find(m => name === 'Placed Order' || name === 'placed-order')
FindPlacedOrderMetric(metrics) ==
    LET idx == { i \in DOMAIN metrics :
                   metrics[i].name = StrPlacedOrder \/ metrics[i].name = StrPlacedOrderDash }
    IN IF idx = {} THEN NoMetric ELSE metrics[FirstIndex(idx)]

\* metricsResponse.data.data.find(m => m.attributes.name === name)?.id, null when absent
FindMetricId(metrics, name) ==
    LET idx == { i \in DOMAIN metrics : metrics[i].name = name }
    IN IF idx = {} THEN Null ELSE metrics[FirstIndex(idx)].id

\* totalRevenue: the sum of every value of every group
SumGroups(groups) == SumSeq([i \in DOMAIN groups |-> SumSeq(groups[i].values)])

\* group.dimensions?.[0] || 'unknown'
DimensionOrUnknown(g) ==
    IF g.dimensions = <<>> \/ g.dimensions[1] = "" THEN "unknown" ELSE g.dimensions[1]

RECURSIVE GroupedByFlow(_)
\* attributedFlowRevenue[flowId] = (attributedFlowRevenue[flowId] || 0) + value, per group
GroupedByFlow(groups) ==
    IF groups = <<>> THEN EmptyMap
    ELSE LET g == groups[Len(groups)]
         IN AddTo(GroupedByFlow(SubSeq(groups, 1, Len(groups) - 1)),
                  DimensionOrUnknown(g), SumSeq(g.values))

RECURSIVE CountMapOf(_)
\* messageOpensMap[messageId] = (messageOpensMap[messageId] || 0) + count, for every
\* group whose first dimension is truthy
CountMapOf(groups) ==
    IF groups = <<>> THEN EmptyMap
    ELSE LET g == groups[Len(groups)]
             rest == CountMapOf(SubSeq(groups, 1, Len(groups) - 1))
         IN IF g.dimensions # <<>> /\ g.dimensions[1] # ""
            THEN AddTo(rest, g.dimensions[1], SumSeq(g.values))
            ELSE rest

\* the rows whose $attributed_message is the campaign id, summed
CampaignSumOf(rows, campaignId) ==
    SumGroups(SelectSeq(rows, LAMBDA r : r.dimensions # <<>> /\ r.dimensions[1] = campaignId))

\* allCampaigns.filter(campaign => new Date(updated_at) >= thirtyDaysAgo)
FreshCampaigns(allCampaigns) ==
    SelectSeq(allCampaigns, LAMBDA c : c.updated_at >= -(FreshDays * TicksPerDay))

\* Object.keys(campaignToMessageIds): the campaign ids in insertion order
CampaignIdsOf(filteredCampaigns) ==
    Dedup([i \in DOMAIN filteredCampaigns |-> filteredCampaigns[i].id])

\* campaignToMessageIds[campaignId]: the ids of the campaign-message relationships
\* (a later campaign with the same id overwrites an earlier one)
MessageIdsOf(filteredCampaigns, campaignId) ==
    LET idx == { i \in DOMAIN filteredCampaigns : filteredCampaigns[i].id = campaignId }
    IN filteredCampaigns[CHOOSE i \in idx : \A j \in idx : j <= i].messages

\* an aggregation that reads the map at the campaign id whatever the messages are
CampaignEngagementById(messageIds, campaignId, map) ==
    Get(map, campaignId)

\* an aggregation without the fallback: a campaign without messages counts nothing
CampaignEngagementNoFallback(messageIds, campaignId, map) ==
    SumSeq([j \in DOMAIN messageIds |-> Get(map, messageIds[j])])

\* the local aggregation of one engagement map over a campaign's messages
CampaignEngagement(messageIds, campaignId, map) ==
    IF Len(messageIds) > 0
    THEN SumSeq([j \in DOMAIN messageIds |-> Get(map, messageIds[j])])
    ELSE Get(map, campaignId)

\* (count / recipients) * 100 when recipients > 0, else the initial 0; kept as a fraction
RateOf(count, recipients) ==
    IF recipients > 0 THEN [num |-> count * 100, den |-> recipients]
    ELSE [num |-> 0, den |-> 1]

ZeroMetrics ==
    [revenue |-> 0, recipients |-> 0, opens |-> 0, clicks |-> 0, conversions |-> 0,
     openRate |-> RateOf(0, 0), clickRate |-> RateOf(0, 0)]

\* one row of campaignsTable
CampaignRow(campaign, campaignMetrics) ==
    LET m == IF campaign.id \in DOMAIN campaignMetrics
             THEN campaignMetrics[campaign.id] ELSE ZeroMetrics
    IN [id |-> campaign.id, recipients |-> m.recipients, opens |-> m.opens,
        clicks |-> m.clicks, revenue |-> m.revenue, conversions |-> m.conversions,
        openRate |-> m.openRate, clickRate |-> m.clickRate]

\* allFlows.filter(flow => status.toLowerCase() !== 'draft')
ActiveFlows(allFlows) ==
    SelectSeq(allFlows, LAMBDA f : ToLowerCase(f.status) # StrDraft)

\* one row of flowsTable
FlowRow(flow, r) ==
    LET opens == Get(r.flowOpensMap, flow.id)
        clicks == Get(r.flowClicksMap, flow.id)
        recipients == Get(r.flowRecipientsMap, flow.id)
    IN [id |-> flow.id, status |-> flow.status, recipients |-> recipients,
        opens |-> opens, clicks |-> clicks,
        revenue |-> Get(r.attributedFlowRevenue, flow.id),
        conversions |-> Get(r.flowConversionsFromRevenue, flow.id),
        openRate |-> RateOf(opens, recipients), clickRate |-> RateOf(clicks, recipients)]

-----------------------------------------------------------------------------
(* Authentication of the backend with accounts (authenticate, auth.js) *)

StrBearer == <<66,101,97,114,101,114,32>>
StrBearerLower == <<98,101,97,114,101,114,32>>
StrBasic == <<66,97,115,105,99,32>>

\* an Authorization header is its first characters and the token that follows;
\* a token is signed with the server's secret and unexpired, or not, and names a user
NoHeader == [present |-> FALSE, prefix |-> << >>, token |-> [signed |-> FALSE, id |-> ""]]
Header(prefix, signed, id) ==
    [present |-> TRUE, prefix |-> prefix, token |-> [signed |-> signed, id |-> id]]

\* verifyToken(token): the decoded payload, or null ("" as id) when jwt.verify throws
verifyToken(token) == IF token.signed THEN token.id ELSE ""

\* users.find(u => u.id === userId), 0 when there is none
UserIndex(us, userId) ==
    LET idx == { i \in DOMAIN us : us[i].id = userId }
    IN IF idx = {} THEN 0 ELSE FirstIndex(idx)

\* the users file after getUserById(userId): a user stored in the old format
\* (an API key and no klaviyoAccounts) is migrated and saved
UsersAfterGet(us, userId) ==
    LET i == UserIndex(us, userId)
    IN IF i # 0 /\ ~us[i].hasAccounts /\ us[i].klaviyoApiKey # ""
       THEN [us EXCEPT ![i] = [@ EXCEPT !.hasAccounts = TRUE,
                                        !.klaviyoAccounts =
                                            << [id |-> userId, name |-> "Default Account",
                                                apiKey |-> us[i].klaviyoApiKey,
                                                isActive |-> TRUE] >>]]
       ELSE us

\* authenticate(req, res, next): "next" or the error of the 401 answer
authenticate(authorization, us) ==
    IF ~authorization.present \/ authorization.prefix # StrBearer THEN "No token provided"
    ELSE IF verifyToken(authorization.token) = "" THEN "Invalid token"
    ELSE IF UserIndex(us, verifyToken(authorization.token)) = 0 THEN "User not found"
    ELSE "next"

\* users.json at rest: no fs.writeFile in progress, content written by no request
FileAtRest == [writers |-> {}, writer |-> ""]

\* the requests whose writes a reader of the file observes now
WritersSeen == file.writers \cup ({file.writer} \ {""})

\* loadUsers(): the parsed content of users.json, [] when JSON.parse throws; the
\* file cannot be parsed between the truncation of a write and its completion
loadUsers == IF file.writers # {} THEN << >> ELSE users

\* authenticate up to the end of the read of getUserById: the 401 answers, next(),
\* or the pending saveUsers of a migrated user
AuthRead(r, authorization, nextPc, noRes) ==
    LET us == loadUsers
        outcome == authenticate(authorization, us)
        migrated == UsersAfterGet(us, verifyToken(authorization.token))
        seen == IF outcome \in {"next", "User not found"} THEN WritersSeen ELSE {}
    IN IF outcome # "next"
       THEN [r EXCEPT !.pc = "done", !.readFrom = seen,
                      !.res = [noRes EXCEPT !.status = 401, !.error = outcome]]
       ELSE IF migrated # us
       THEN [r EXCEPT !.pc = "authSave", !.readFrom = seen, !.loaded = migrated]
       ELSE [r EXCEPT !.pc = nextPc, !.readFrom = seen]

\* saveUsers, first half: fs.writeFile opens users.json for writing, which
\* truncates it
FileOpened(me) == [file EXCEPT !.writers = @ \cup {me}]
\* saveUsers, second half: the content is written and the file closed
FileWritten(me) == [writers |-> file.writers \ {me}, writer |-> me]

UserU1 == [id |-> "u1", username |-> "n1", email |-> "e1",
           klaviyoApiKey |-> "k1", hasAccounts |-> TRUE,
           klaviyoAccounts |-> << [id |-> "a1", name |-> "Default Account",
                                   apiKey |-> "k1", isActive |-> TRUE] >>]
UserU2 == [id |-> "u2", username |-> "n2", email |-> "e2",
           klaviyoApiKey |-> "k2", hasAccounts |-> FALSE,
           klaviyoAccounts |-> << >>]

ValidHeader == Header(StrBearer, TRUE, "u1")
\* no header, another scheme, a lower-case scheme, an unverifiable token, the token
\* of a user that is gone, and the tokens of the two users
AuthHeaders ==
    { NoHeader, Header(StrBasic, TRUE, "u1"), Header(StrBearerLower, TRUE, "u1"),
      Header(StrBearer, FALSE, "u1"), Header(StrBearer, TRUE, "u3"),
      ValidHeader, Header(StrBearer, TRUE, "u2") }

-----------------------------------------------------------------------------
(* GET /api/revenue/total: the handler, one action per upstream call *)

NoRes ==
    [status |-> 0, success |-> FALSE, error |-> "",
     totalRevenue |-> 0, totalCampaigns |-> 0, totalFlows |-> 0,
     attributedCampaignRevenue |-> EmptyMap, attributedFlowRevenue |-> EmptyMap,
     campaigns |-> <<>>, flows |-> <<>>]

\* the locals of the handler when it starts; start is getLast30Days().start
InitialRt ==
    [pc |-> "auth", calls |-> <<>>, failed |-> {},
     loaded |-> << >>, readFrom |-> {}, overwrote |-> {},
     start |-> WindowStart,
     placedOrderMetricId |-> Null, totalRevenue |-> 0,
     openedEmailMetricId |-> Null, clickedEmailMetricId |-> Null,
     receivedEmailMetricId |-> Null,
     attributedFlowRevenue |-> EmptyMap, flowConversionsFromRevenue |-> EmptyMap,
     attributedCampaignRevenue |-> EmptyMap, filteredCampaigns |-> <<>>,
     campaignMetrics |-> EmptyMap,
     messageOpensMap |-> EmptyMap, messageClicksMap |-> EmptyMap,
     messageRecipientsMap |-> EmptyMap,
     emailResponse |-> <<>>, i |-> 1,
     totalCampaigns |-> 0, totalFlows |-> 0, campaignsTable |-> <<>>,
     activeFlows |-> <<>>, flowOpensMap |-> EmptyMap, flowClicksMap |-> EmptyMap,
     flowRecipientsMap |-> EmptyMap, flowsTable |-> <<>>,
     res |-> NoRes]

\* the outcomes an upstream call may have: it answers, or (while faults remain) fails
Outcomes == IF faults > 0 THEN {TRUE, FALSE} ELSE {TRUE}

\* the call is logged, and a failure uses up one fault
Called(r, label, ok) ==
    [r EXCEPT !.calls = Append(@, label),
              !.failed = IF ok THEN @ ELSE @ \cup {label}]

\* the outer catch: res.status(500).json({ success: false, error })
Respond500(r) ==
    [r EXCEPT !.pc = "done", !.res = [NoRes EXCEPT !.status = 500, !.error = "upstream"]]

\* res.json({ success: true, totalRevenue, totalCampaigns, totalFlows, ... })
RespondReport(r) ==
    [r EXCEPT !.pc = "done",
              !.res = [status |-> 200, success |-> TRUE, error |-> "",
                       totalRevenue |-> r.totalRevenue,
                       totalCampaigns |-> r.totalCampaigns,
                       totalFlows |-> r.totalFlows,
                       attributedCampaignRevenue |-> r.attributedCampaignRevenue,
                       attributedFlowRevenue |-> r.attributedFlowRevenue,
                       campaigns |-> r.campaignsTable,
                       flows |-> r.flowsTable]]

\* the authenticate middleware in front of the summary handler, up to the read of users.json
RtAuthenticate ==
    /\ rt.pc = "auth"
    /\ rt' = AuthRead(rt, req.authorization, "metrics", NoRes)
    /\ UNCHANGED <<acct, faults, sv, rp, req, users, file, call, mg, fe>>

\* getUserById saves the migrated user: the write of users.json begins
RtAuthSave ==
    /\ rt.pc = "authSave"
    /\ rt' = [rt EXCEPT !.pc = "authWrite", !.overwrote = WritersSeen \ {"rt"}]
    /\ file' = FileOpened("rt")
    /\ UNCHANGED <<acct, faults, sv, rp, req, users, call, mg, fe>>

\* the write completes, and authenticate calls next()
RtAuthWrite ==
    /\ rt.pc = "authWrite"
    /\ rt' = [rt EXCEPT !.pc = "metrics"]
    /\ users' = rt.loaded
    /\ file' = FileWritten("rt")
    /\ UNCHANGED <<acct, faults, sv, rp, req, call, mg, fe>>

\* the first GET /metrics/ and the Placed Order lookup
RtMetrics ==
    /\ rt.pc = "metrics"
    /\ \E ok \in Outcomes :
         LET r == Called(rt, "metrics", ok)
             placedOrderMetric == FindPlacedOrderMetric(UpstreamMetrics(acct))
         IN /\ faults' = IF ok THEN faults ELSE faults - 1
            /\ rt' = IF ~ok THEN Respond500(r)
                     ELSE IF placedOrderMetric = NoMetric
                     THEN [r EXCEPT !.pc = "done",
                                    !.res = [NoRes EXCEPT !.status = 200,
                                               !.error = "Placed Order metric not found"]]
                     ELSE [r EXCEPT !.pc = "revenue",
                                    !.placedOrderMetricId = placedOrderMetric.id]
    /\ UNCHANGED <<acct, sv, req, users, rp, file, call, mg, fe>>

\* 1. the total revenue aggregate (no grouping)
RtTotalRevenue ==
    /\ rt.pc = "revenue"
    /\ \E ok \in Outcomes :
         LET r == Called(rt, "revenue", ok)
         IN /\ faults' = IF ok THEN faults ELSE faults - 1
            /\ rt' = IF ~ok THEN Respond500(r)
                     ELSE [r EXCEPT !.pc = "metrics2",
                                    !.totalRevenue =
                                        SumGroups(OrderAggregate(acct.orders, "sum_value",
                                                                 "", NoFilter))]
    /\ UNCHANGED <<acct, sv, req, users, rp, file, call, mg, fe>>

\* the second GET /metrics/ for the three engagement metric ids
RtEngagementMetrics ==
    /\ rt.pc = "metrics2"
    /\ \E ok \in Outcomes :
         LET r == Called(rt, "metrics2", ok)
             metrics == UpstreamMetrics(acct)
         IN /\ faults' = IF ok THEN faults ELSE faults - 1
            /\ rt' = IF ~ok THEN [r EXCEPT !.pc = "flowRevenue"]
                     ELSE [r EXCEPT !.pc = "flowRevenue",
                             !.openedEmailMetricId = FindMetricId(metrics, StrOpenedEmail),
                             !.clickedEmailMetricId = FindMetricId(metrics, StrClickedEmail),
                             !.receivedEmailMetricId = FindMetricId(metrics, StrReceivedEmail)]
    /\ UNCHANGED <<acct, sv, req, users, rp, file, call, mg, fe>>

\* the flow revenue aggregate, grouped by $attributed_flow
RtFlowRevenue ==
    /\ rt.pc = "flowRevenue"
    /\ \E ok \in Outcomes :
         LET r == Called(rt, "flowRevenue", ok)
         IN /\ faults' = IF ok THEN faults ELSE faults - 1
            /\ rt' = IF ~ok THEN [r EXCEPT !.pc = "flowConversions"]
                     ELSE [r EXCEPT !.pc = "flowConversions",
                             !.attributedFlowRevenue =
                                 GroupedByFlow(OrderAggregate(acct.orders, "sum_value",
                                                              "$attributed_flow", NotEmpty))]
    /\ UNCHANGED <<acct, sv, req, users, rp, file, call, mg, fe>>

\* the flow conversions aggregate, grouped by $attributed_flow
RtFlowConversions ==
    /\ rt.pc = "flowConversions"
    /\ \E ok \in Outcomes :
         LET r == Called(rt, "flowConversions", ok)
         IN /\ faults' = IF ok THEN faults ELSE faults - 1
            /\ rt' = IF ~ok THEN [r EXCEPT !.pc = "emailCampaigns"]
                     ELSE [r EXCEPT !.pc = "emailCampaigns",
                             !.flowConversionsFromRevenue =
                                 GroupedByFlow(OrderAggregate(acct.orders, "count",
                                                              "$attributed_flow", NotEmpty))]
    /\ UNCHANGED <<acct, sv, req, users, rp, file, call, mg, fe>>

\* the email campaigns of the window; a failure leaves the whole campaign section
RtEmailCampaigns ==
    /\ rt.pc = "emailCampaigns"
    /\ \E ok \in Outcomes :
         LET r == Called(rt, "emailCampaigns", ok)
         IN /\ faults' = IF ok THEN faults ELSE faults - 1
            /\ rt' = IF ~ok THEN [r EXCEPT !.pc = "countEmail"]
                     ELSE [r EXCEPT !.pc = "smsCampaigns",
                             !.emailResponse =
                                 UpstreamCampaigns(acct.emailCampaigns, rt.start)]
    /\ UNCHANGED <<acct, sv, req, users, rp, file, call, mg, fe>>

\* the SMS fetch whose failure ends the request with the error envelope
RtSmsCampaignsUnabsorbed ==
    /\ rt.pc = "smsCampaigns"
    /\ \E ok \in Outcomes :
         LET r == Called(rt, "smsCampaigns", ok)
             allCampaigns == rt.emailResponse \o UpstreamCampaigns(acct.smsCampaigns, rt.start)
         IN /\ faults' = IF ok THEN faults ELSE faults - 1
            /\ rt' = IF ~ok THEN Respond500(r)
                     ELSE [r EXCEPT !.pc = "opens",
                                    !.filteredCampaigns = FreshCampaigns(allCampaigns)]
    /\ UNCHANGED <<acct, sv, req, users, rp, file, call, mg, fe>>

\* the SMS campaigns (a failure counts as none), then the freshness filter
RtSmsCampaigns ==
    /\ rt.pc = "smsCampaigns"
    /\ \E ok \in Outcomes :
         LET r == Called(rt, "smsCampaigns", ok)
             smsCampaigns == IF ok THEN UpstreamCampaigns(acct.smsCampaigns, rt.start)
                             ELSE <<>>
             allCampaigns == rt.emailResponse \o smsCampaigns
         IN /\ faults' = IF ok THEN faults ELSE faults - 1
            /\ rt' = [r EXCEPT !.pc = "opens",
                               !.filteredCampaigns = FreshCampaigns(allCampaigns)]
    /\ UNCHANGED <<acct, sv, req, users, rp, file, call, mg, fe>>

\* one count aggregate of an engagement metric, grouped by $message or by $flow:
\* skipped when the metric id is null, and its map left empty when the call fails
AggregateOutcomes(metricId) == IF metricId = Null THEN {TRUE} ELSE Outcomes

AggregateFaults(metricId, ok) == IF metricId = Null \/ ok THEN faults ELSE faults - 1

AggregateStep(metricId, label, field, table, keyOrder, ok) ==
    IF metricId = Null THEN rt
    ELSE LET r == Called(rt, label, ok)
         IN IF ~ok THEN r
            ELSE [r EXCEPT ![field] = CountMapOf(CountAggregate(table, keyOrder))]

GoClicks(r) == [r EXCEPT !.pc = "clicks"]
GoRecipients(r) == [r EXCEPT !.pc = "recipients"]
\* after the third aggregate the per-campaign loop starts (or is empty)
GoLoop(r) ==
    [r EXCEPT !.pc = IF CampaignIdsOf(r.filteredCampaigns) = <<>>
                     THEN "countEmail" ELSE "campRevenue"]

RtOpens ==
    /\ rt.pc = "opens"
    /\ \E ok \in AggregateOutcomes(rt.openedEmailMetricId) :
         /\ faults' = AggregateFaults(rt.openedEmailMetricId, ok)
         /\ rt' = GoClicks(AggregateStep(rt.openedEmailMetricId, "opens", "messageOpensMap",
                    acct.eng.opens, MessageKeys, ok))
    /\ UNCHANGED <<acct, sv, req, users, rp, file, call, mg, fe>>

RtClicks ==
    /\ rt.pc = "clicks"
    /\ \E ok \in AggregateOutcomes(rt.clickedEmailMetricId) :
         /\ faults' = AggregateFaults(rt.clickedEmailMetricId, ok)
         /\ rt' = GoRecipients(AggregateStep(rt.clickedEmailMetricId, "clicks", "messageClicksMap",
                    acct.eng.clicks, MessageKeys, ok))
    /\ UNCHANGED <<acct, sv, req, users, rp, file, call, mg, fe>>

RtRecipients ==
    /\ rt.pc = "recipients"
    /\ \E ok \in AggregateOutcomes(rt.receivedEmailMetricId) :
         /\ faults' = AggregateFaults(rt.receivedEmailMetricId, ok)
         /\ rt' = GoLoop(AggregateStep(rt.receivedEmailMetricId, "recipients", "messageRecipientsMap",
                    acct.eng.received, MessageKeys, ok))
    /\ UNCHANGED <<acct, sv, req, users, rp, file, call, mg, fe>>

\* the campaign the loop is at
CurrentCampaignId == CampaignIdsOf(rt.filteredCampaigns)[rt.i]

\* loop body, first call: the revenue attributed to this campaign id
RtCampaignRevenue ==
    /\ rt.pc = "campRevenue"
    /\ \E ok \in Outcomes :
         LET campaignId == CurrentCampaignId
             r == Called(rt, "campRevenue", ok)
             campaignRevenue ==
                 CampaignSumOf(OrderAggregate(acct.orders, "sum_value",
                                              "$attributed_message", Equals(campaignId)),
                               campaignId)
         IN /\ faults' = IF ok THEN faults ELSE faults - 1
            /\ rt' = IF ~ok
                     THEN [r EXCEPT !.pc = "campConversions",
                             !.campaignMetrics = (campaignId :> ZeroMetrics) @@ @]
                     ELSE [r EXCEPT !.pc = "campConversions",
                             !.campaignMetrics =
                                 (campaignId :> [ZeroMetrics EXCEPT !.revenue = campaignRevenue]) @@ @,
                             !.attributedCampaignRevenue = (campaignId :> campaignRevenue) @@ @]
    /\ UNCHANGED <<acct, sv, req, users, rp, file, call, mg, fe>>

\* what the local aggregation writes into campaignMetrics[campaignId]
LocalAggregation(metrics, messageIds, campaignId, r) ==
    LET opens == CampaignEngagement(messageIds, campaignId, r.messageOpensMap)
        clicks == CampaignEngagement(messageIds, campaignId, r.messageClicksMap)
        recipients == CampaignEngagement(messageIds, campaignId, r.messageRecipientsMap)
    IN [metrics EXCEPT !.opens = opens, !.clicks = clicks, !.recipients = recipients,
                       !.openRate = RateOf(opens, recipients),
                       !.clickRate = RateOf(clicks, recipients)]

\* loop body, second call: the conversions, then the local aggregation and the rates
RtCampaignConversions ==
    /\ rt.pc = "campConversions"
    /\ \E ok \in Outcomes :
         LET campaignId == CurrentCampaignId
             ids == CampaignIdsOf(rt.filteredCampaigns)
             r == Called(rt, "campConversions", ok)
             campaignConversions ==
                 CampaignSumOf(OrderAggregate(acct.orders, "count",
                                              "$attributed_message", Equals(campaignId)),
                               campaignId)
             withConversions ==
                 IF ok THEN [rt.campaignMetrics[campaignId] EXCEPT !.conversions = campaignConversions]
                 ELSE rt.campaignMetrics[campaignId]
             metrics == LocalAggregation(withConversions,
                                         MessageIdsOf(rt.filteredCampaigns, campaignId),
                                         campaignId, rt)
         IN /\ faults' = IF ok THEN faults ELSE faults - 1
            /\ rt' = [r EXCEPT !.pc = IF rt.i < Len(ids) THEN "campRevenue" ELSE "countEmail",
                               !.i = @ + 1,
                               !.campaignMetrics = (campaignId :> metrics) @@ @]
    /\ UNCHANGED <<acct, sv, req, users, rp, file, call, mg, fe>>

\* 2. the campaign count: the email campaigns again (a failure leaves the count 0)
RtCountEmail ==
    /\ rt.pc = "countEmail"
    /\ \E ok \in Outcomes :
         LET r == Called(rt, "countEmail", ok)
         IN /\ faults' = IF ok THEN faults ELSE faults - 1
            /\ rt' = IF ~ok THEN [r EXCEPT !.pc = "flowsCount"]
                     ELSE [r EXCEPT !.pc = "countSms",
                             !.emailResponse =
                                 UpstreamCampaigns(acct.emailCampaigns, WindowStart)]
    /\ UNCHANGED <<acct, sv, req, users, rp, file, call, mg, fe>>

\* the SMS campaigns again (a failure counts as none); filteredCampaigns is
\* recomputed only when it is empty, and counted
RtCountSms ==
    /\ rt.pc = "countSms"
    /\ \E ok \in Outcomes :
         LET r == Called(rt, "countSms", ok)
             smsCampaigns == IF ok THEN UpstreamCampaigns(acct.smsCampaigns, WindowStart)
                             ELSE <<>>
             filtered == IF Len(rt.filteredCampaigns) = 0
                         THEN FreshCampaigns(rt.emailResponse \o smsCampaigns)
                         ELSE rt.filteredCampaigns
         IN /\ faults' = IF ok THEN faults ELSE faults - 1
            /\ rt' = [r EXCEPT !.pc = "flowsCount",
                               !.filteredCampaigns = filtered,
                               !.totalCampaigns = Len(filtered)]
    /\ UNCHANGED <<acct, sv, req, users, rp, file, call, mg, fe>>

\* 3. the flow count, then 4. the campaigns table
RtFlowsCount ==
    /\ rt.pc = "flowsCount"
    /\ \E ok \in Outcomes :
         LET r == Called(rt, "flowsCount", ok)
             campaignsTable == [k \in DOMAIN rt.filteredCampaigns |->
                                  CampaignRow(rt.filteredCampaigns[k], rt.campaignMetrics)]
         IN /\ faults' = IF ok THEN faults ELSE faults - 1
            /\ rt' = [r EXCEPT !.pc = "flowsFetch",
                               !.totalFlows = IF ok THEN Len(ActiveFlows(UpstreamFlows(acct)))
                                              ELSE 0,
                               !.campaignsTable = campaignsTable]
    /\ UNCHANGED <<acct, sv, req, users, rp, file, call, mg, fe>>

\* 5. the flows of the table; a failure answers with an empty flows table
RtFlowsFetch ==
    /\ rt.pc = "flowsFetch"
    /\ \E ok \in Outcomes :
         LET r == Called(rt, "flowsFetch", ok)
         IN /\ faults' = IF ok THEN faults ELSE faults - 1
            /\ rt' = IF ~ok THEN RespondReport(r)
                     ELSE [r EXCEPT !.pc = "flowOpens",
                                    !.activeFlows = ActiveFlows(UpstreamFlows(acct))]
    /\ UNCHANGED <<acct, sv, req, users, rp, file, call, mg, fe>>

GoFlowClicks(r) == [r EXCEPT !.pc = "flowClicks"]
GoFlowRecipients(r) == [r EXCEPT !.pc = "flowRecipients"]
\* the rows of the flows table, then the response
BuildFlowsAndRespond(r) ==
    RespondReport([r EXCEPT !.flowsTable =
                      [k \in DOMAIN r.activeFlows |-> FlowRow(r.activeFlows[k], r)]])

RtFlowOpens ==
    /\ rt.pc = "flowOpens"
    /\ \E ok \in AggregateOutcomes(rt.openedEmailMetricId) :
         /\ faults' = AggregateFaults(rt.openedEmailMetricId, ok)
         /\ rt' = GoFlowClicks(AggregateStep(rt.openedEmailMetricId, "flowOpens", "flowOpensMap",
                    acct.eng.opens, FlowKeys, ok))
    /\ UNCHANGED <<acct, sv, req, users, rp, file, call, mg, fe>>

RtFlowClicks ==
    /\ rt.pc = "flowClicks"
    /\ \E ok \in AggregateOutcomes(rt.clickedEmailMetricId) :
         /\ faults' = AggregateFaults(rt.clickedEmailMetricId, ok)
         /\ rt' = GoFlowRecipients(AggregateStep(rt.clickedEmailMetricId, "flowClicks", "flowClicksMap",
                    acct.eng.clicks, FlowKeys, ok))
    /\ UNCHANGED <<acct, sv, req, users, rp, file, call, mg, fe>>

RtFlowRecipients ==
    /\ rt.pc = "flowRecipients"
    /\ \E ok \in AggregateOutcomes(rt.receivedEmailMetricId) :
         /\ faults' = AggregateFaults(rt.receivedEmailMetricId, ok)
         /\ rt' = BuildFlowsAndRespond(AggregateStep(rt.receivedEmailMetricId, "flowRecipients", "flowRecipientsMap",
                    acct.eng.received, FlowKeys, ok))
    /\ UNCHANGED <<acct, sv, req, users, rp, file, call, mg, fe>>

-----------------------------------------------------------------------------
(* The Events API and the pure functions of the events handlers (server.js) *)

\* upper limits of the event lists and of the upstream page size
MaxEvents == 3
MaxPageSize == 2

Min(a, b) == IF a < b THEN a ELSE b

\* links.next of page k: a URL whose query holds the filter and the cursor of the
\* next page (the cursor of page k is the token k)
NextLink(k) ==
    << [key |-> "filter", value |-> 0], [key |-> "page[cursor]", value |-> k + 1] >>

\* GET /events/: the page the cursor names (the first page when there is none) and
\* the link to the next page when events remain
UpstreamEvents(events, size, cursor) ==
    LET k == IF cursor = 0 THEN 1 ELSE cursor
    IN [data |-> SubSeq(events, (k - 1) * size + 1, Min(k * size, Len(events))),
        links |-> [next |-> IF k * size < Len(events) THEN NextLink(k) ELSE << >>]]

\* new URL(url).searchParams.get(key): the first value of the key, null (0) when absent
SearchParamsGet(url, key) ==
    LET idx == { i \in DOMAIN url : url[i].key = key }
    IN IF idx = {} THEN 0 ELSE url[FirstIndex(idx)].value

\* links?.next ? new URL(links.next).searchParams.get('page[cursor]') : null
NextCursorOf(links) ==
    IF links.next # << >> THEN SearchParamsGet(links.next, "page[cursor]") ELSE 0

\* extractRevenue(props): $value when present, else 0 (no fallback field is present)
extractRevenue(props) == IF props.has_value THEN props.value ELSE 0

\* event.relationships.metric || {}: an object without $value
MetricRelationship == [has_value |-> FALSE, value |-> 0]

\* the first of the values that is truthy, "" when none is
FirstTruthy(values) ==
    LET idx == { i \in DOMAIN values : values[i] # "" }
    IN IF idx = {} THEN "" ELSE values[FirstIndex(idx)]

\* the attributions of the event that are found in included, in order
FoundAttributions(event, included) ==
    LET refs == SelectSeq(event.attributions,
                          LAMBDA a : \E i \in DOMAIN included : included[i].id = a)
    IN [j \in DOMAIN refs |->
          included[FirstIndex({ i \in DOMAIN included : included[i].id = refs[j] })]]

\* extractCampaignId(event, included); "" stands for null / undefined
extractCampaignId(event, included) ==
    LET found == FoundAttributions(event, included)
    IN IF event.message_interaction # "" THEN event.message_interaction
       ELSE IF event.attributed_campaign # "" THEN event.attributed_campaign
       ELSE IF event.attributed_message # "" THEN event.attributed_message
       ELSE IF event.message # "" THEN event.message
       ELSE IF event.campaign_id # "" \/ event.Campaign_ID # ""
            THEN FirstTruthy(<< event.campaign_id, event.Campaign_ID >>)
       ELSE IF found # << >>
            THEN FirstTruthy(<< found[1].attributed_message, found[1].campaign_id,
                                found[1].message_id >>)
       ELSE event.campaign

\* hasCampaign || hasFlow: the events the /api/campaigns handler keeps
HasAttribution(event) ==
    \/ event.message_interaction # ""
    \/ event.attributed_campaign # ""
    \/ event.attributed_message # ""
    \/ event.message # ""
    \/ event.campaign_id # ""
    \/ event.Campaign_ID # ""
    \/ Len(event.attributions) > 0
    \/ event.campaign # ""
    \/ event.attributed_flow # ""

\* event_properties['$message_interaction'] || {}: the object is the key
\* "[object Object]" of the maps
InteractionOrObject(event) ==
    IF event.message_interaction # "" THEN event.message_interaction ELSE "[object Object]"

\* metrics.find(name === 'Placed Order' || name.toLowerCase().includes('placed order'))
FindPlacedOrderLoose(metrics) ==
    LET idx == { i \in DOMAIN metrics :
                   \/ metrics[i].name = StrPlacedOrder
                   \/ Includes(ToLowerCase(metrics[i].name), StrPlacedOrderLower) }
    IN IF idx = {} THEN NoMetric ELSE metrics[FirstIndex(idx)]

\* metrics.find(name === metricName || name.toLowerCase() === metricName.toLowerCase())
FindMetricByName(metrics, metricName) ==
    LET idx == { i \in DOMAIN metrics :
                   \/ metrics[i].name = metricName
                   \/ ToLowerCase(metrics[i].name) = ToLowerCase(metricName) }
    IN IF idx = {} THEN NoMetric ELSE metrics[FirstIndex(idx)]

StrOpenedEmailLower == ToLowerCase(StrOpenedEmail)
StrClickedEmailLower == ToLowerCase(StrClickedEmail)
StrOpen == <<111,112,101,110>>
StrClick == <<99,108,105,99,107>>

\* metrics.find(name === exact || lower.includes(phrase) || lower.includes(word))
FindEngagementMetric(metrics, exact, phrase, word) ==
    LET idx == { i \in DOMAIN metrics :
                   \/ metrics[i].name = exact
                   \/ Includes(ToLowerCase(metrics[i].name), phrase)
                   \/ Includes(ToLowerCase(metrics[i].name), word) }
    IN IF idx = {} THEN NoMetric ELSE metrics[FirstIndex(idx)]

\* the by-status attribution of the standalone servers: event properties first
\* ($attributed_campaign, campaign_id, 'Campaign ID'), then the attributions found
\* in included (the last one found decides), then the campaign relationship
ByStatusCampaignId(event, included) ==
    LET found == FoundAttributions(event, included)
        fromProps == FirstTruthy(<< event.attributed_campaign, event.campaign_id,
                                    event.Campaign_ID >>)
        fromAttributions ==
            IF fromProps = "" /\ found # << >>
            THEN FirstTruthy(<< found[Len(found)].campaign_id, found[Len(found)].message_id >>)
            ELSE fromProps
    IN IF fromAttributions = "" THEN event.campaign ELSE fromAttributions

-----------------------------------------------------------------------------
(* server.js GET /api/campaigns: one action per upstream call *)

\* startDate.setDate(startDate.getDate() - 30) of server.js
ServerWindowDays == 30
ServerWindowStart == -(ServerWindowDays * TicksPerDay)

NoSvRes == [status |-> 0, success |-> FALSE, error |-> "", data |-> << >>, total |-> 0]

\* the locals of an events handler when it starts
InitialSv(handler, status) ==
    [handler |-> handler, status |-> status,
     pc |-> CASE handler = "campaigns" -> "email"
              [] handler = "byStatus001" -> "auth"
              [] OTHER -> "bsMetrics",
     calls |-> << >>, failed |-> {},
     loaded |-> << >>, readFrom |-> {}, overwrote |-> {},
     emailCampaigns |-> << >>, smsCampaigns |-> << >>, campaigns |-> << >>,
     metrics |-> << >>, metricId |-> Null,
     nextCursor |-> 0, requests |-> << >>, openRequests |-> << >>,
     clickRequests |-> << >>,
     allEvents |-> << >>, events |-> << >>,
     eventRevenueWithID |-> EmptyMap,
     attributionRevenue |-> EmptyMap, attributionConversions |-> EmptyMap,
     openedEmailMetricId |-> Null, clickedEmailMetricId |-> Null,
     allOpenEvents |-> << >>, openEvents |-> << >>,
     allClickEvents |-> << >>, clickEvents |-> << >>,
     res |-> NoSvRes]

\* no events handler runs
IdleSv == [InitialSv("none", "") EXCEPT !.pc = "idle"]

\* the events of a metric
EventsOf(a, metricId) ==
    CASE metricId = "mPO" -> a.placedEvents
      [] metricId = "mOE" -> a.openEvents
      [] metricId = "mCE" -> a.clickEvents
      [] OTHER -> << >>

\* the outer catch: res.status(500).json({ success: false, error })
SvRespond500(r) ==
    [r EXCEPT !.pc = "done", !.res = [NoSvRes EXCEPT !.status = 500, !.error = "error"]]

\* the rows answered when there is no Placed Order metric
ZeroRows(r) ==
    [k \in DOMAIN r.campaigns |->
        [id |-> r.campaigns[k].id, recipients |-> 0, opens |-> 0, clicks |-> 0,
         revenue |-> 0, conversions |-> 0]]

SvEmailCampaigns ==
    /\ sv.handler = "campaigns" /\ sv.pc = "email"
    /\ \E ok \in Outcomes :
         LET r == Called(sv, "email", ok)
         IN /\ faults' = IF ok THEN faults ELSE faults - 1
            /\ sv' = IF ~ok THEN SvRespond500(r)
                     ELSE [r EXCEPT !.pc = "sms",
                             !.emailCampaigns =
                                 UpstreamCampaigns(acct.emailCampaigns, ServerWindowStart)]
    /\ UNCHANGED <<acct, rt, req, users, rp, file, call, mg, fe>>

\* the SMS campaigns; a failure counts as none
SvSmsCampaigns ==
    /\ sv.handler = "campaigns" /\ sv.pc = "sms"
    /\ \E ok \in Outcomes :
         LET r == Called(sv, "sms", ok)
             smsCampaigns == IF ok THEN UpstreamCampaigns(acct.smsCampaigns, ServerWindowStart)
                             ELSE << >>
         IN /\ faults' = IF ok THEN faults ELSE faults - 1
            /\ sv' = [r EXCEPT !.pc = "metrics",
                               !.smsCampaigns = smsCampaigns,
                               !.campaigns = sv.emailCampaigns \o smsCampaigns]
    /\ UNCHANGED <<acct, rt, req, users, rp, file, call, mg, fe>>

\* GET /metrics/ and the Placed Order lookup; without the metric the campaigns are
\* answered with zero metrics
SvMetrics ==
    /\ sv.handler = "campaigns" /\ sv.pc = "metrics"
    /\ \E ok \in Outcomes :
         LET r == Called(sv, "metrics", ok)
             metrics == UpstreamMetrics(acct)
             placedOrderMetric == FindPlacedOrderLoose(metrics)
         IN /\ faults' = IF ok THEN faults ELSE faults - 1
            /\ sv' = IF ~ok THEN SvRespond500(r)
                     ELSE IF placedOrderMetric = NoMetric
                     THEN [r EXCEPT !.pc = "done", !.metrics = metrics,
                             !.res = [NoSvRes EXCEPT !.status = 200, !.success = TRUE,
                                        !.data = ZeroRows(r), !.total = Len(r.campaigns)]]
                     ELSE [r EXCEPT !.pc = "placedPage", !.metrics = metrics,
                                    !.metricId = placedOrderMetric.id]
    /\ UNCHANGED <<acct, rt, req, users, rp, file, call, mg, fe>>

RECURSIVE SumByKey(_, _)
\* map[key] = (map[key] || 0) + value over the entries whose key is truthy
SumByKey(keys, values) ==
    IF keys = << >> THEN EmptyMap
    ELSE LET n == Len(keys)
             rest == SumByKey(SubSeq(keys, 1, n - 1), SubSeq(values, 1, n - 1))
         IN IF keys[n] = "" THEN rest ELSE AddTo(rest, keys[n], values[n])

\* eventRevenueWithID[event.id] = $value, over all Placed Order events
RevenueWithID(events) ==
    [id \in { events[i].id : i \in DOMAIN events } |->
        LET idx == { i \in DOMAIN events : events[i].id = id }
            last == events[CHOOSE i \in idx : \A j \in idx : j <= i]
        IN IF last.has_value THEN last.value ELSE 0]

\* what follows the Placed Order drain: the revenue by event id, the attribution
\* filter, the attribution map and the two engagement metric lookups
AfterPlacedDrain(r) ==
    LET events == SelectSeq(r.allEvents, HasAttribution)
        keys == [i \in DOMAIN events |-> InteractionOrObject(events[i])]
        openedEmailMetric == FindEngagementMetric(r.metrics, StrOpenedEmail,
                                                  StrOpenedEmailLower, StrOpen)
        clickedEmailMetric == FindEngagementMetric(r.metrics, StrClickedEmail,
                                                   StrClickedEmailLower, StrClick)
    IN [r EXCEPT !.events = events,
                 !.eventRevenueWithID = RevenueWithID(r.allEvents),
                 !.attributionRevenue =
                     SumByKey(keys, [i \in DOMAIN events |-> extractRevenue(MetricRelationship)]),
                 !.attributionConversions = SumByKey(keys, [i \in DOMAIN events |-> 1]),
                 !.openedEmailMetricId = openedEmailMetric.id,
                 !.clickedEmailMetricId = clickedEmailMetric.id,
                 !.pc = "openPage"]

\* campaignOpenRevenue: the Placed Order revenue recorded under the id of an open
\* event, by the campaign of the open event
CampaignOpenRevenue(r) ==
    LET opensKeys == [i \in DOMAIN r.openEvents |-> InteractionOrObject(r.openEvents[i])]
        openValue(i) == Get(r.eventRevenueWithID, r.openEvents[i].id)
    IN SumByKey([i \in DOMAIN r.openEvents |-> IF openValue(i) > 0 THEN opensKeys[i] ELSE ""],
                [i \in DOMAIN r.openEvents |-> openValue(i)])

\* campaignClickRevenue: the $value of the click events, by campaign
CampaignClickRevenue(r) ==
    LET clickKeys == [i \in DOMAIN r.clickEvents |-> r.clickEvents[i].message_interaction]
    IN SumByKey([i \in DOMAIN r.clickEvents |->
                   IF extractRevenue(r.clickEvents[i]) > 0 THEN clickKeys[i] ELSE ""],
                [i \in DOMAIN r.clickEvents |-> extractRevenue(r.clickEvents[i])])

\* the engagement maps and the rows of the answer
CampaignsWithMetrics(r) ==
    LET opensKeys == [i \in DOMAIN r.openEvents |-> InteractionOrObject(r.openEvents[i])]
        campaignOpens == SumByKey(opensKeys, [i \in DOMAIN r.openEvents |-> 1])
        campaignOpenRevenue == CampaignOpenRevenue(r)
        clickKeys == [i \in DOMAIN r.clickEvents |-> r.clickEvents[i].message_interaction]
        campaignClicks == SumByKey(clickKeys, [i \in DOMAIN r.clickEvents |-> 1])
        campaignClickRevenue == CampaignClickRevenue(r)
        campaignRecipients(id) ==
            Cardinality({ r.openEvents[i].profile : i \in { j \in DOMAIN r.openEvents :
                            /\ r.openEvents[j].message_interaction = id
                            /\ r.openEvents[j].profile # "" } })
        placedOrderRevenue(id) == Get(r.attributionRevenue, id)
        \* placedOrderRevenue + clickRevenue + campaignOpenRevenue[id] || 0
        totalAttributedRevenue(id) ==
            IF id \in DOMAIN campaignOpenRevenue
            THEN placedOrderRevenue(id) + Get(campaignClickRevenue, id) + campaignOpenRevenue[id]
            ELSE 0
    IN [k \in DOMAIN r.campaigns |->
          LET id == r.campaigns[k].id
          IN [id |-> id, recipients |-> campaignRecipients(id),
              opens |-> Get(campaignOpens, id), clicks |-> Get(campaignClicks, id),
              revenue |-> totalAttributedRevenue(id),
              conversions |-> Get(r.attributionConversions, id)]]

\* after the drains: the log line reading openEvents[0] (which throws when there
\* is no open event or it has no $event_id), then the answer
SvFinish(r) ==
    IF r.openEvents = << >> \/ ~r.openEvents[1].has_event_id
    THEN SvRespond500(r)
    ELSE [r EXCEPT !.pc = "done",
            !.res = [NoSvRes EXCEPT !.status = 200, !.success = TRUE,
                       !.data = CampaignsWithMetrics(r), !.total = Len(r.campaigns)]]

\* where the handler goes when a drain of engagement events is over or skipped
AfterOpen(r) ==
    IF r.clickedEmailMetricId # Null THEN [r EXCEPT !.pc = "clickPage", !.nextCursor = 0]
    ELSE SvFinish(r)
AfterPlaced(r) ==
    LET q == AfterPlacedDrain(r)
    IN IF q.openedEmailMetricId # Null THEN q ELSE AfterOpen(q)

\* one request of the Placed Order drain
SvPlacedPage ==
    /\ sv.handler = "campaigns" /\ sv.pc = "placedPage"
    /\ \E ok \in Outcomes :
         LET r == [Called(sv, "placedPage", ok) EXCEPT !.requests = Append(@, sv.nextCursor)]
             eventsResponse == UpstreamEvents(EventsOf(acct, sv.metricId), acct.pageSize,
                                              sv.nextCursor)
             q == [r EXCEPT !.allEvents = @ \o eventsResponse.data,
                            !.nextCursor = NextCursorOf(eventsResponse.links)]
         IN /\ faults' = IF ok THEN faults ELSE faults - 1
            /\ sv' = IF ~ok THEN SvRespond500(r)
                     ELSE IF q.nextCursor # 0 THEN q
                     ELSE AfterPlaced(q)
    /\ UNCHANGED <<acct, rt, req, users, rp, file, call, mg, fe>>

\* one request of the Opened Email drain; a failure leaves openEvents empty
SvOpenPage ==
    /\ sv.handler = "campaigns" /\ sv.pc = "openPage"
    /\ \E ok \in Outcomes :
         LET r == [Called(sv, "openPage", ok) EXCEPT !.openRequests = Append(@, sv.nextCursor)]
             openResponse == UpstreamEvents(EventsOf(acct, sv.openedEmailMetricId),
                                            acct.pageSize, sv.nextCursor)
             q == [r EXCEPT !.allOpenEvents = @ \o openResponse.data,
                            !.nextCursor = NextCursorOf(openResponse.links)]
         IN /\ faults' = IF ok THEN faults ELSE faults - 1
            /\ sv' = IF ~ok THEN AfterOpen(r)
                     ELSE IF q.nextCursor # 0 THEN q
                     ELSE AfterOpen([q EXCEPT !.openEvents =
                                       SelectSeq(q.allOpenEvents, HasAttribution)])
    /\ UNCHANGED <<acct, rt, req, users, rp, file, call, mg, fe>>

\* one request of the Clicked Email drain; a failure leaves clickEvents empty
SvClickPage ==
    /\ sv.handler = "campaigns" /\ sv.pc = "clickPage"
    /\ \E ok \in Outcomes :
         LET r == [Called(sv, "clickPage", ok) EXCEPT !.clickRequests = Append(@, sv.nextCursor)]
             clickResponse == UpstreamEvents(EventsOf(acct, sv.clickedEmailMetricId),
                                             acct.pageSize, sv.nextCursor)
             q == [r EXCEPT !.allClickEvents = @ \o clickResponse.data,
                            !.nextCursor = NextCursorOf(clickResponse.links)]
         IN /\ faults' = IF ok THEN faults ELSE faults - 1
            /\ sv' = IF ~ok THEN SvFinish(r)
                     ELSE IF q.nextCursor # 0 THEN q
                     ELSE SvFinish([q EXCEPT !.clickEvents =
                                      SelectSeq(q.allClickEvents, HasAttribution)])
    /\ UNCHANGED <<acct, rt, req, users, rp, file, call, mg, fe>>

-----------------------------------------------------------------------------
(* GET /api/campaigns/by-status of server.js and of the two standalone servers *)

StrRefundedOrder == <<82,101,102,117,110,100,101,100,32,79,114,100,101,114>>

\* metricMap[status] || 'Placed Order'
MetricNameOf(status) ==
    CASE status = "Refunded Order" -> StrRefundedOrder
      [] OTHER -> StrPlacedOrder

\* one processed event of the answer
ProcessedEvent(event, campaignId) ==
    [id |-> event.id, message_interaction |-> event.message_interaction,
     attributed_campaign |-> event.attributed_campaign,
     campaignId |-> campaignId, revenue |-> extractRevenue(event)]

\* the authenticate middleware in front of the by-status handler of the backend with accounts, up to the read of users.json
SbAuthenticate ==
    /\ sv.handler = "byStatus001" /\ sv.pc = "auth"
    /\ sv' = AuthRead(sv, req.authorization, "bsMetrics", NoSvRes)
    /\ UNCHANGED <<acct, faults, rt, rp, req, users, file, call, mg, fe>>

\* getUserById saves the migrated user: the write of users.json begins
SbAuthSave ==
    /\ sv.handler = "byStatus001" /\ sv.pc = "authSave"
    /\ sv' = [sv EXCEPT !.pc = "authWrite", !.overwrote = WritersSeen \ {"sv"}]
    /\ file' = FileOpened("sv")
    /\ UNCHANGED <<acct, faults, rt, rp, req, users, call, mg, fe>>

\* the write completes, and authenticate calls next()
SbAuthWrite ==
    /\ sv.handler = "byStatus001" /\ sv.pc = "authWrite"
    /\ sv' = [sv EXCEPT !.pc = "bsMetrics"]
    /\ users' = sv.loaded
    /\ file' = FileWritten("sv")
    /\ UNCHANGED <<acct, faults, rt, rp, req, call, mg, fe>>

\* res.json({ success: false, error }) of the by-status handlers
SbRefuse(r, error) ==
    [r EXCEPT !.pc = "done", !.res = [NoSvRes EXCEPT !.status = 200, !.error = error]]

\* server.js: the metrics request and the lookup of the metric of the status
SbMetrics ==
    /\ sv.handler = "byStatus" /\ sv.pc = "bsMetrics"
    /\ \E ok \in Outcomes :
         LET r == Called(sv, "bsMetrics", ok)
             metrics == UpstreamMetrics(acct)
             targetMetric == FindMetricByName(metrics, MetricNameOf(sv.status))
         IN /\ faults' = IF ok THEN faults ELSE faults - 1
            /\ sv' = IF ~ok THEN SvRespond500(r)
                     ELSE IF targetMetric = NoMetric THEN SbRefuse(r, "Metric not found")
                     ELSE [r EXCEPT !.pc = "bsEvents", !.metrics = metrics,
                                    !.metricId = targetMetric.id]
    /\ UNCHANGED <<acct, rt, req, users, rp, file, call, mg, fe>>

\* the standalone server: any status but Placed Order is refused without an
\* upstream call; else the metrics request and the Placed Order lookup
SbMetricsStandalone ==
    /\ sv.handler = "byStatus000" /\ sv.pc = "bsMetrics"
    /\ IF sv.status # "Placed Order"
       THEN /\ sv' = SbRefuse(sv, "Only Placed Order status is supported")
            /\ faults' = faults
       ELSE \E ok \in Outcomes :
              LET r == Called(sv, "bsMetrics", ok)
                  metrics == UpstreamMetrics(acct)
                  placedOrderMetric == FindMetricByName(metrics, StrPlacedOrder)
              IN /\ faults' = IF ok THEN faults ELSE faults - 1
                 /\ sv' = IF ~ok THEN SvRespond500(r)
                          ELSE IF placedOrderMetric = NoMetric
                          THEN SbRefuse(r, "Placed Order metric not found")
                          ELSE [r EXCEPT !.pc = "bsEvents", !.metrics = metrics,
                                         !.metricId = placedOrderMetric.id]
    /\ UNCHANGED <<acct, rt, req, users, rp, file, call, mg, fe>>

\* the backend with accounts: as the standalone server up to the lookup; then the
\* events filter is built from an undeclared endTimestamp, which throws into the
\* outer catch before any events request
SbMetricsAuth ==
    /\ sv.handler = "byStatus001" /\ sv.pc = "bsMetrics"
    /\ IF sv.status # "Placed Order"
       THEN /\ sv' = SbRefuse(sv, "Only Placed Order status is supported")
            /\ faults' = faults
       ELSE \E ok \in Outcomes :
              LET r == Called(sv, "bsMetrics", ok)
                  metrics == UpstreamMetrics(acct)
                  placedOrderMetric == FindMetricByName(metrics, StrPlacedOrder)
              IN /\ faults' = IF ok THEN faults ELSE faults - 1
                 /\ sv' = IF ~ok THEN SvRespond500(r)
                          ELSE IF placedOrderMetric = NoMetric
                          THEN SbRefuse(r, "Placed Order metric not found")
                          ELSE SvRespond500([r EXCEPT !.metrics = metrics,
                                                      !.metricId = placedOrderMetric.id])
    /\ UNCHANGED <<acct, rt, req, users, rp, file, call, mg, fe>>

\* the answer of a by-status handler
SbRespond(r, events, processedEvents) ==
    [r EXCEPT !.pc = "done", !.allEvents = events,
              !.res = [NoSvRes EXCEPT !.status = 200, !.success = TRUE,
                         !.data = processedEvents, !.total = Len(processedEvents)]]

\* server.js: the single events request, extractCampaignId on each event, the answer
SbEvents ==
    /\ sv.handler = "byStatus" /\ sv.pc = "bsEvents"
    /\ \E ok \in Outcomes :
         LET r == [Called(sv, "bsEvents", ok) EXCEPT !.requests = Append(@, 0)]
             events == UpstreamEvents(EventsOf(acct, sv.metricId), acct.pageSize, 0).data
             processedEvents ==
                 [i \in DOMAIN events |->
                    ProcessedEvent(events[i], extractCampaignId(events[i], << >>))]
         IN /\ faults' = IF ok THEN faults ELSE faults - 1
            /\ sv' = IF ~ok THEN SvRespond500(r) ELSE SbRespond(r, events, processedEvents)
    /\ UNCHANGED <<acct, rt, req, users, rp, file, call, mg, fe>>

\* the standalone server: the single events request (with the attributions
\* included), its own attribution of each event, the answer
SbEventsStandalone ==
    /\ sv.handler = "byStatus000" /\ sv.pc = "bsEvents"
    /\ \E ok \in Outcomes :
         LET r == [Called(sv, "bsEvents", ok) EXCEPT !.requests = Append(@, 0)]
             events == UpstreamEvents(EventsOf(acct, sv.metricId), acct.pageSize, 0).data
             processedEvents ==
                 [i \in DOMAIN events |->
                    ProcessedEvent(events[i], ByStatusCampaignId(events[i], acct.included))]
         IN /\ faults' = IF ok THEN faults ELSE faults - 1
            /\ sv' = IF ~ok THEN SvRespond500(r) ELSE SbRespond(r, events, processedEvents)
    /\ UNCHANGED <<acct, rt, req, users, rp, file, call, mg, fe>>

-----------------------------------------------------------------------------
(* GET /api/campaigns and GET /api/flows of the backend with accounts: the  *)
(* handlers that read the rate-limited values-report endpoints.  Their      *)
(* clock counts the seconds spent in report calls and in waits.             *)

\* const waitTime = 31: the seconds waited after a report call
WaitTime == 31
\* a report call takes between 1 and MaxLatency seconds
MaxLatency == 2
\* at most this many campaigns in the email list of a report request
MaxReportItems == 3

\* seconds per tick of the day clock
SecondsPerTick == 86400 \div TicksPerDay

\* POST /campaign-values-reports/ or /flow-values-reports/ filtered to one id:
\* data.attributes.results, empty when the account has no report data for the id
UpstreamReport(a, id) == IF id \in DOMAIN a.reports THEN a.reports[id] ELSE << >>

\* the locals of a values-report handler when it starts
InitialRp(handler) ==
    [handler |-> handler, pc |-> "auth", calls |-> << >>, failed |-> {},
     loaded |-> << >>, readFrom |-> {}, overwrote |-> {},
     emailCampaigns |-> << >>, smsCampaigns |-> << >>, items |-> << >>,
     placedOrderMetricId |-> Null, i |-> 1, now |-> 0, timeline |-> << >>,
     rows |-> << >>, res |-> NoSvRes]

\* no values-report handler runs
IdleRp == [InitialRp("none") EXCEPT !.pc = "idle"]

\* the authenticate middleware in front of both values-report handlers, up to the read of users.json
RpAuthenticate ==
    /\ rp.pc = "auth"
    /\ rp' = AuthRead(rp, req.reportAuthorization,
                      IF rp.handler = "campaigns001" THEN "email" ELSE "flows", NoSvRes)
    /\ UNCHANGED <<acct, faults, rt, sv, req, users, file, call, mg, fe>>

\* getUserById saves the migrated user: the write of users.json begins
RpAuthSave ==
    /\ rp.pc = "authSave"
    /\ rp' = [rp EXCEPT !.pc = "authWrite", !.overwrote = WritersSeen \ {"rp"}]
    /\ file' = FileOpened("rp")
    /\ UNCHANGED <<acct, faults, rt, sv, req, users, call, mg, fe>>

\* the write completes, and authenticate calls next()
RpAuthWrite ==
    /\ rp.pc = "authWrite"
    /\ rp' = [rp EXCEPT !.pc = IF rp.handler = "campaigns001" THEN "email" ELSE "flows"]
    /\ users' = rp.loaded
    /\ file' = FileWritten("rp")
    /\ UNCHANGED <<acct, faults, rt, sv, req, call, mg, fe>>

\* the outer catch of both handlers
RpRespond500(r) ==
    [r EXCEPT !.pc = "done", !.res = [NoSvRes EXCEPT !.status = 500, !.error = "error"]]

\* uniqueCampaignsMap: the first campaign of each id, in order
UniqueCampaigns(allCampaigns) ==
    SelectSeq([k \in DOMAIN allCampaigns |->
                  [c |-> allCampaigns[k],
                   first |-> \A j \in 1..(k - 1) : allCampaigns[j].id # allCampaigns[k].id]],
              LAMBDA e : e.first)

\* campaignData before the metrics are fetched
CampaignData(campaign, smsCampaigns) ==
    [id |-> campaign.id, status |-> campaign.status, updatedAt |-> campaign.updated_at,
     messageType |-> IF \E k \in DOMAIN smsCampaigns : smsCampaigns[k].id = campaign.id
                     THEN "sms" ELSE "email",
     recipients |-> 0, opens |-> 0, clicks |-> 0, revenue |-> 0, conversions |-> 0]

\* stats.conversion_uniques || stats.conversions || 0
ConversionsOf(stats) ==
    IF stats.conversion_uniques # 0 THEN stats.conversion_uniques ELSE stats.conversions

\* campaignData after a report with results: the statistics of the first result
WithStats(data, stats) ==
    [data EXCEPT !.recipients = stats.recipients, !.opens = stats.opens,
                 !.clicks = stats.clicks, !.revenue = stats.conversion_value,
                 !.conversions = ConversionsOf(stats)]

RECURSIVE SumStats(_)
\* aggregatedStats: every statistic summed over the results of a flow report
SumStats(results) ==
    IF results = << >> THEN Stats(0, 0, 0, 0, 0, 0)
    ELSE LET s == results[1]
             rest == SumStats(Tail(results))
         IN Stats(s.recipients + rest.recipients, s.opens + rest.opens,
                  s.clicks + rest.clicks, s.conversions + rest.conversions,
                  s.conversion_value + rest.conversion_value,
                  s.conversion_uniques + rest.conversion_uniques)

\* attributes.status === 'Sent' || attributes.status === 'sent', with a metric id
NeedsReport(r, k) ==
    /\ r.items[k].status \in {StrSent, StrSentLower}
    /\ r.placedOrderMetricId # Null

\* a wait that never happens
DelayNever(i, n) == FALSE

\* if (i < campaigns.length - 1), with i counted from 1
DelayAfter(i, n) == i < n

\* the filter on updated_at at the time of the answer, and the answer
RespondCampaigns(r) ==
    LET thirtyDaysAgo == (r.now \div SecondsPerTick) - (FreshDays * TicksPerDay)
        filteredCampaigns == SelectSeq(r.rows, LAMBDA c : c.updatedAt >= thirtyDaysAgo)
    IN [r EXCEPT !.pc = "done",
                 !.res = [NoSvRes EXCEPT !.status = 200, !.success = TRUE,
                            !.data = filteredCampaigns, !.total = Len(filteredCampaigns)]]

RECURSIVE NextCampaign(_)
\* the loop from campaign i on, up to the next report call or the answer: a
\* campaign that needs no report is pushed with zero metrics
NextCampaign(r) ==
    IF r.i > Len(r.items) THEN RespondCampaigns(r)
    ELSE IF NeedsReport(r, r.i) THEN [r EXCEPT !.pc = "report"]
    ELSE NextCampaign([r EXCEPT !.rows = Append(@, CampaignData(r.items[r.i], r.smsCampaigns)),
                                !.i = @ + 1])

\* the email campaigns of the window; a failure ends the request
RpEmailCampaigns ==
    /\ rp.handler = "campaigns001" /\ rp.pc = "email"
    /\ \E ok \in Outcomes :
         LET r == Called(rp, "email", ok)
         IN /\ faults' = IF ok THEN faults ELSE faults - 1
            /\ rp' = IF ~ok THEN RpRespond500(r)
                     ELSE [r EXCEPT !.pc = "sms",
                             !.emailCampaigns =
                                 UpstreamCampaigns(acct.emailCampaigns, WindowStart)]
    /\ UNCHANGED <<acct, rt, sv, req, users, file, call, mg, fe>>

\* the SMS campaigns (a failure counts as none), then the removal of duplicates
RpSmsCampaigns ==
    /\ rp.handler = "campaigns001" /\ rp.pc = "sms"
    /\ \E ok \in Outcomes :
         LET r == Called(rp, "sms", ok)
             smsCampaigns == IF ok THEN UpstreamCampaigns(acct.smsCampaigns, WindowStart)
                             ELSE << >>
             unique == UniqueCampaigns(rp.emailCampaigns \o smsCampaigns)
         IN /\ faults' = IF ok THEN faults ELSE faults - 1
            /\ rp' = [r EXCEPT !.pc = "metrics", !.smsCampaigns = smsCampaigns,
                               !.items = [k \in DOMAIN unique |-> unique[k].c]]
    /\ UNCHANGED <<acct, rt, sv, req, users, file, call, mg, fe>>

\* GET /metrics/ and the Placed Order lookup (a failure leaves the id null), then
\* the loop up to its first report call
RpMetrics ==
    /\ rp.handler = "campaigns001" /\ rp.pc = "metrics"
    /\ \E ok \in Outcomes :
         LET r == Called(rp, "metrics", ok)
             placedOrderMetric == FindPlacedOrderLoose(UpstreamMetrics(acct))
         IN /\ faults' = IF ok THEN faults ELSE faults - 1
            /\ rp' = IF ~ok THEN NextCampaign(r)
                     ELSE NextCampaign([r EXCEPT !.placedOrderMetricId = placedOrderMetric.id])
    /\ UNCHANGED <<acct, rt, sv, req, users, file, call, mg, fe>>

\* one entry of the timeline: a report call or a wait, from start to end
Entry(kind, id, start, end) == [kind |-> kind, id |-> id, start |-> start, end |-> end]

\* POST /campaign-values-reports/ for campaign i (a failure leaves the zero
\* metrics); the wait follows unless the campaign is the last of the list
RpCampaignReport ==
    /\ rp.handler = "campaigns001" /\ rp.pc = "report"
    /\ \E ok \in Outcomes, latency \in 1..MaxLatency :
         LET campaign == rp.items[rp.i]
             results == UpstreamReport(acct, campaign.id)
             campaignData == CampaignData(campaign, rp.smsCampaigns)
             r == [Called(rp, "report", ok) EXCEPT
                     !.now = @ + latency,
                     !.timeline = Append(@, Entry("report", campaign.id, rp.now,
                                                  rp.now + latency)),
                     !.rows = Append(@, IF ok /\ results # << >>
                                        THEN WithStats(campaignData, results[1])
                                        ELSE campaignData)]
         IN /\ faults' = IF ok THEN faults ELSE faults - 1
            /\ rp' = IF DelayAfter(rp.i, Len(rp.items)) THEN [r EXCEPT !.pc = "delay"]
                     ELSE NextCampaign([r EXCEPT !.i = @ + 1])
    /\ UNCHANGED <<acct, rt, sv, req, users, file, call, mg, fe>>

\* await new Promise(resolve => setTimeout(resolve, waitTime * 1000)), then the
\* loop goes on with the next campaign
RpCampaignDelay ==
    /\ rp.handler = "campaigns001" /\ rp.pc = "delay"
    /\ rp' = NextCampaign([rp EXCEPT !.now = @ + WaitTime,
                                     !.timeline = Append(@, Entry("delay", "", rp.now,
                                                                  rp.now + WaitTime)),
                                     !.i = @ + 1])
    /\ UNCHANGED <<acct, faults, rt, sv, req, users, file, call, mg, fe>>

\* one element of flowsWithMetrics before the metrics are fetched
FlowData(flow) ==
    [id |-> flow.id, status |-> flow.status, recipients |-> 0, opens |-> 0, clicks |-> 0,
     revenue |-> 0, conversions |-> 0]

\* res.json({ success: true, data: flowsWithMetrics, total })
RespondFlows(r) ==
    [r EXCEPT !.pc = "done",
              !.res = [NoSvRes EXCEPT !.status = 200, !.success = TRUE,
                         !.data = r.rows, !.total = Len(r.rows)]]

\* GET /flows/ and the removal of the draft flows; a failure ends the request
RpFlows ==
    /\ rp.handler = "flows001" /\ rp.pc = "flows"
    /\ \E ok \in Outcomes :
         LET r == Called(rp, "flows", ok)
         IN /\ faults' = IF ok THEN faults ELSE faults - 1
            /\ rp' = IF ~ok THEN RpRespond500(r)
                     ELSE [r EXCEPT !.pc = "flowMetrics",
                                    !.items = ActiveFlows(UpstreamFlows(acct))]
    /\ UNCHANGED <<acct, rt, sv, req, users, file, call, mg, fe>>

\* GET /metrics/ and the Placed Order lookup (a failure leaves the id null), then
\* flowsWithMetrics with zero metrics
RpFlowMetrics ==
    /\ rp.handler = "flows001" /\ rp.pc = "flowMetrics"
    /\ \E ok \in Outcomes :
         LET r == Called(rp, "flowMetrics", ok)
             placedOrderMetric == FindPlacedOrderLoose(UpstreamMetrics(acct))
             q == [r EXCEPT !.placedOrderMetricId =
                               IF ok THEN placedOrderMetric.id ELSE Null,
                            !.rows = [k \in DOMAIN r.items |-> FlowData(r.items[k])]]
         IN /\ faults' = IF ok THEN faults ELSE faults - 1
            /\ rp' = IF q.items = << >> THEN RespondFlows(q)
                     ELSE [q EXCEPT !.pc = "flowReport"]
    /\ UNCHANGED <<acct, rt, sv, req, users, file, call, mg, fe>>

\* POST /flow-values-reports/ for flow i (a failure leaves the zero metrics); the
\* wait follows unless the flow is the last one, after which the answer is sent
RpFlowReport ==
    /\ rp.handler = "flows001" /\ rp.pc = "flowReport"
    /\ \E ok \in Outcomes, latency \in 1..MaxLatency :
         LET flow == rp.items[rp.i]
             results == UpstreamReport(acct, flow.id)
             aggregatedStats == SumStats(results)
             r == [Called(rp, "flowReport", ok) EXCEPT
                     !.now = @ + latency,
                     !.timeline = Append(@, Entry("report", flow.id, rp.now,
                                                  rp.now + latency)),
                     !.rows[rp.i] = IF ok /\ results # << >>
                                    THEN WithStats(@, aggregatedStats) ELSE @]
         IN /\ faults' = IF ok THEN faults ELSE faults - 1
            /\ rp' = IF DelayAfter(rp.i, Len(rp.items)) THEN [r EXCEPT !.pc = "flowDelay"]
                     ELSE RespondFlows([r EXCEPT !.i = @ + 1])
    /\ UNCHANGED <<acct, rt, sv, req, users, file, call, mg, fe>>

\* the wait after the report call of a flow that is not the last one
RpFlowDelay ==
    /\ rp.handler = "flows001" /\ rp.pc = "flowDelay"
    /\ rp' = [rp EXCEPT !.pc = "flowReport", !.now = @ + WaitTime,
                        !.timeline = Append(@, Entry("delay", "", rp.now, rp.now + WaitTime)),
                        !.i = @ + 1]
    /\ UNCHANGED <<acct, faults, rt, sv, req, users, file, call, mg, fe>>

-----------------------------------------------------------------------------
(* The helper functions applied on their own *)

\* no helper function is under application
NoCall == [fn |-> "none", event |-> NoEvent, included |-> << >>, done |-> FALSE, result |-> ""]

\* extractCampaignId(event, included) is about to be applied
CallOf(event, included) ==
    [fn |-> "extractCampaignId", event |-> event, included |-> included,
     done |-> FALSE, result |-> ""]

\* the application of extractCampaignId
ExtractCampaignIdCall ==
    /\ call.fn = "extractCampaignId" /\ ~call.done
    /\ call' = [call EXCEPT !.done = TRUE,
                            !.result = extractCampaignId(call.event, call.included)]
    /\ UNCHANGED <<acct, faults, rt, sv, req, users, rp, file, mg, fe>>

-----------------------------------------------------------------------------
(* The account functions of auth.js: registerClient, addKlaviyoAccount,
   switchKlaviyoAccount, deleteKlaviyoAccount, and the key of a report request *)

\* the callers, the calls of a sequence, and the values Date.now() takes
Procs == {"p1", "p2"}
MaxCalls == 3
MaxClock == 1

\* `${userId}_${Date.now()}` and Date.now().toString()
AccountIdAt(userId, t) == userId \o "_" \o ToString(t)
UserIdAt(t) == ToString(t)

\* what a function does with the users it loaded: it throws, or it has the
\* users it is about to save and the value it will return
Throws(error) == [error |-> error, users |-> << >>, returns |-> ""]
Saves(us, returns) == [error |-> "", users |-> us, returns |-> returns]

DefaultAccount(id, apiKey) ==
    [id |-> id, name |-> "Default Account", apiKey |-> apiKey, isActive |-> TRUE]

\* a registration that does not look for the email or the username
registerClientUnchecked(us, username, email, klaviyoApiKey, t) ==
    Saves(Append(us, [id |-> UserIdAt(t), username |-> username, email |-> email,
                      klaviyoApiKey |-> klaviyoApiKey, hasAccounts |-> TRUE,
                      klaviyoAccounts |-> << >>]),
          UserIdAt(t))

\* registerClient(username, email, password, klaviyoApiKey) on the loaded users
registerClient(us, username, email, klaviyoApiKey, t) ==
    IF \E i \in DOMAIN us : us[i].email = email
    THEN Throws("User with this email already exists")
    ELSE IF \E i \in DOMAIN us : us[i].username = username
    THEN Throws("Username already taken")
    ELSE Saves(Append(us, [id |-> UserIdAt(t), username |-> username, email |-> email,
                           klaviyoApiKey |-> klaviyoApiKey, hasAccounts |-> TRUE,
                           klaviyoAccounts |->
                               IF klaviyoApiKey # ""
                               THEN << DefaultAccount(UserIdAt(t), klaviyoApiKey) >>
                               ELSE << >>]),
               UserIdAt(t))

\* addKlaviyoAccount(userId, accountName, apiKey) on the loaded users
addKlaviyoAccount(us, userId, apiKey, t) ==
    LET i == UserIndex(us, userId)
    IN IF i = 0 THEN Throws("User not found")
       ELSE IF \E k \in DOMAIN us[i].klaviyoAccounts : us[i].klaviyoAccounts[k].apiKey = apiKey
       THEN Throws("This API key is already added")
       ELSE LET newAccount == [id |-> AccountIdAt(userId, t), name |-> "New Account",
                               apiKey |-> apiKey, isActive |-> TRUE]
                inactive == [k \in DOMAIN us[i].klaviyoAccounts |->
                               [us[i].klaviyoAccounts[k] EXCEPT !.isActive = FALSE]]
            IN Saves([us EXCEPT ![i] = [@ EXCEPT !.hasAccounts = TRUE,
                                                 !.klaviyoAccounts = Append(inactive, newAccount)]],
                     newAccount.id)

\* the user after the migration of switchKlaviyoAccount: a user in the old format
\* gets one active account holding the legacy key
Migrated(user, t) ==
    IF ~user.hasAccounts /\ user.klaviyoApiKey # ""
    THEN [user EXCEPT !.hasAccounts = TRUE,
                      !.klaviyoAccounts =
                          << DefaultAccount(AccountIdAt(user.id, t), user.klaviyoApiKey) >>]
    ELSE user

\* switchKlaviyoAccount(userId, accountId) on the loaded users
switchKlaviyoAccount(us, userId, accountId, t) ==
    LET i == UserIndex(us, userId)
    IN IF i = 0 THEN Throws("User not found")
       ELSE LET user == Migrated(us[i], t)
                accounts == user.klaviyoAccounts
            IN IF ~user.hasAccounts \/ Len(accounts) = 0
               THEN Throws("No Klaviyo accounts found")
               ELSE IF \A k \in DOMAIN accounts : accounts[k].id # accountId
               THEN Throws("Account not found")
               ELSE Saves([us EXCEPT ![i] =
                              [user EXCEPT !.klaviyoAccounts =
                                  [k \in DOMAIN accounts |->
                                     [accounts[k] EXCEPT !.isActive = (accounts[k].id = accountId)]]]],
                          accountId)

\* accounts.splice(index, 1)
Splice(accounts, index) ==
    SubSeq(accounts, 1, index - 1) \o SubSeq(accounts, index + 1, Len(accounts))

\* deleteKlaviyoAccount(userId, accountId) on the loaded users
deleteKlaviyoAccount(us, userId, accountId) ==
    LET i == UserIndex(us, userId)
    IN IF i = 0 THEN Throws("User not found")
       ELSE LET accounts == us[i].klaviyoAccounts
                idx == { k \in DOMAIN accounts : accounts[k].id = accountId }
            IN IF ~us[i].hasAccounts \/ Len(accounts) = 0
               THEN Throws("No Klaviyo accounts found")
               ELSE IF Len(accounts) = 1 THEN Throws("Cannot delete the only account")
               ELSE IF idx = {} THEN Throws("Account not found")
               ELSE LET accountIndex == FirstIndex(idx)
                        wasActive == accounts[accountIndex].isActive
                        rest == Splice(accounts, accountIndex)
                    IN Saves([us EXCEPT ![i] =
                                [@ EXCEPT !.klaviyoAccounts =
                                    IF wasActive /\ Len(rest) > 0
                                    THEN [rest EXCEPT ![1] = [@ EXCEPT !.isActive = TRUE]]
                                    ELSE rest]],
                             "deleted")

\* getUserApiKey(req) after authenticate put getUserById(decoded.id) into req.user:
\* a migrated user is saved first, and the key is req.user.klaviyoApiKey
getUserApiKey(us, userId) ==
    LET i == UserIndex(us, userId)
    IN IF i = 0 THEN Throws("User not found")
       ELSE IF UsersAfterGet(us, userId) # us
       THEN Saves(UsersAfterGet(us, userId), us[i].klaviyoApiKey)
       ELSE [error |-> "", users |-> << >>, returns |-> us[i].klaviyoApiKey]

\* getActiveKlaviyoAccount(userId).apiKey on the stored users, "" when it is null
ActiveApiKey(us, userId) ==
    LET i == UserIndex(us, userId)
        accounts == IF i = 0 THEN << >> ELSE us[i].klaviyoAccounts
        active == { k \in DOMAIN accounts : accounts[k].isActive }
    IN IF i = 0 THEN ""
       ELSE IF active # {} THEN accounts[FirstIndex(active)].apiKey
       ELSE IF Len(accounts) > 0 THEN accounts[1].apiKey
       ELSE us[i].klaviyoApiKey

\* one call: the function and its arguments, where it is, the users it is about
\* to save, the stored users when it was made, and how it ended
NoOp ==
    [fn |-> "none", userId |-> "", accountId |-> "", apiKey |-> "", username |-> "",
     email |-> "", pc |-> "idle", loaded |-> << >>, atStart |-> << >>, wrote |-> FALSE,
     error |-> "", returns |-> ""]

\* activated: the users whose active account a successful addKlaviyoAccount or
\* switchKlaviyoAccount has set
IdleMg ==
    [mode |-> "off", now |-> 0, calls |-> 0, activated |-> {},
     procs |-> [p \in Procs |-> NoOp]]

\* the calls that can be made
Invocations ==
    { [NoOp EXCEPT !.fn = "registerClient", !.username = n, !.email = e, !.apiKey = k] :
        n \in {"n1", "n3"}, e \in {"e1", "e3"}, k \in {"", "k3"} }
    \cup { [NoOp EXCEPT !.fn = "addKlaviyoAccount", !.userId = u, !.apiKey = k] :
             u \in {"u1", "u9"}, k \in {"k1", "k2", "k4"} }
    \cup { [NoOp EXCEPT !.fn = f, !.userId = u, !.accountId = a] :
             f \in {"switchKlaviyoAccount", "deleteKlaviyoAccount"}, u \in {"u1", "u2", "u9"},
             a \in {"a1", "a2", "zz"} \cup { AccountIdAt("u1", t) : t \in 0..MaxClock } }
    \cup { [NoOp EXCEPT !.fn = "getUserApiKey", !.userId = u] : u \in {"u1", "u2"} }

\* a call is under way
Running(op) == op.pc \in {"load", "save", "write"}

\* a caller makes a call: one caller makes the calls of a sequence one after the
\* other, two concurrent callers make one call each
MgInvoke(p) ==
    /\ mg.mode # "off"
    /\ ~Running(mg.procs[p])
    /\ mg.mode = "sequential" => p = "p1" /\ mg.calls < MaxCalls
    /\ mg.mode = "concurrent" => mg.procs[p].pc = "idle"
    /\ \E op \in Invocations :
         mg' = [mg EXCEPT !.calls = @ + 1,
                          !.procs[p] = [op EXCEPT !.pc = "load", !.atStart = users]]
    /\ UNCHANGED <<acct, faults, rt, sv, req, users, rp, file, call, fe>>

\* time passes
MgTick ==
    /\ mg.mode # "off" /\ mg.now < MaxClock
    /\ mg' = [mg EXCEPT !.now = @ + 1]
    /\ UNCHANGED <<acct, faults, rt, sv, req, users, rp, file, call, fe>>

\* a call that saves what it holds even when its function threw
AfterLoadAlwaysSaves(op, outcome) ==
    [op EXCEPT !.pc = "save", !.loaded = outcome.users, !.error = outcome.error,
               !.returns = outcome.returns]

\* the call after its loadUsers and the synchronous code that follows it
AfterLoad(op, outcome) ==
    IF outcome.error # "" THEN [op EXCEPT !.pc = "done", !.error = outcome.error]
    ELSE IF outcome.users = << >> THEN [op EXCEPT !.pc = "done", !.returns = outcome.returns]
    ELSE [op EXCEPT !.pc = "save", !.loaded = outcome.users, !.returns = outcome.returns]

\* what the function of the call does with the users it loaded
Outcome(op, us, t) ==
    CASE op.fn = "registerClient" -> registerClient(us, op.username, op.email, op.apiKey, t)
      [] op.fn = "addKlaviyoAccount" -> addKlaviyoAccount(us, op.userId, op.apiKey, t)
      [] op.fn = "switchKlaviyoAccount" -> switchKlaviyoAccount(us, op.userId, op.accountId, t)
      [] op.fn = "deleteKlaviyoAccount" -> deleteKlaviyoAccount(us, op.userId, op.accountId)
      [] OTHER -> getUserApiKey(us, op.userId)

\* loadUsers of a call, up to its saveUsers or its throw
MgLoad(p) ==
    /\ mg.procs[p].pc = "load"
    /\ mg' = [mg EXCEPT !.procs[p] = AfterLoad(@, Outcome(@, loadUsers, mg.now))]
    /\ UNCHANGED <<acct, faults, rt, sv, req, users, rp, file, call, fe>>

\* saveUsers of a call: fs.writeFile opens and truncates users.json
MgSave(p) ==
    /\ mg.procs[p].pc = "save"
    /\ file' = FileOpened(p)
    /\ mg' = [mg EXCEPT !.procs[p] = [@ EXCEPT !.pc = "write", !.wrote = TRUE]]
    /\ UNCHANGED <<acct, faults, rt, sv, req, users, rp, call, fe>>

\* saveUsers of a call completes, and the call returns
MgWrite(p) ==
    /\ mg.procs[p].pc = "write"
    /\ users' = mg.procs[p].loaded
    /\ file' = FileWritten(p)
    /\ mg' = [mg EXCEPT !.procs[p] = [@ EXCEPT !.pc = "done"],
                          !.activated =
                              IF mg.procs[p].fn \in {"addKlaviyoAccount", "switchKlaviyoAccount"}
                              THEN @ \cup {mg.procs[p].userId} ELSE @]
    /\ UNCHANGED <<acct, faults, rt, sv, req, rp, call, fe>>

-----------------------------------------------------------------------------
(* The frontend session: AuthContext.jsx (login, logout, authenticatedFetch) and
   the data loads of Dashboard.jsx (the loadData effect, handleSwitchAccount) *)

\* the account switches of a session, and the answers of the backend
MaxSwitches == 1
Statuses == {200, 401, 500}

UrlAccounts == "/klaviyo-accounts"
UrlSwitch == "/klaviyo-accounts/:id/switch"
UrlRevenueTotal == "/revenue/total"

\* the data loads of a page: the one of the mount (0) and one per switch
Loads == 0..(MaxSwitches + 1)

\* token, user: the state of AuthProvider as the updates enqueued so far leave it;
\* view: the token held by the closures of the last render; storage: localStorage;
\* open: the requests in flight; loads: the /revenue/total requests sent for each
\* data load of the page; thrown: what the last authenticatedFetch that threw, threw;
\* accounts, accountsShown: the accounts list is in the state, and on the page;
\* expired: a 401 was received and login was not called since; lateCalls, lateSent:
\* the authenticatedFetch calls made since then, and those of them that sent a request
IdleFe ==
    [phase |-> "off", token |-> "", user |-> "", view |-> "",
     storage |-> [token |-> "", user |-> ""],
     pendingRender |-> FALSE, effectDue |-> FALSE, effectCause |-> 0,
     hasFetched |-> FALSE, accounts |-> FALSE, accountsShown |-> FALSE,
     switches |-> 0, switched |-> {},
     reloaded |-> FALSE, loggedIn |-> FALSE,
     navigated |-> FALSE, expired |-> FALSE,
     open |-> << >>, loads |-> [n \in Loads |-> 0],
     thrown |-> "", lateCalls |-> 0, lateSent |-> 0]

\* a page load with the session localStorage holds: useState(localStorage.getItem(...))
PageLoaded(f) ==
    [f EXCEPT !.phase = "init", !.token = f.storage.token, !.user = f.storage.user,
              !.view = f.storage.token, !.pendingRender = FALSE, !.effectDue = FALSE,
              !.hasFetched = FALSE, !.accounts = FALSE, !.accountsShown = FALSE,
              !.navigated = FALSE, !.open = << >>]

\* the /revenue/total requests in flight
OpenLoads(f) == { i \in DOMAIN f.open : f.open[i].url = UrlRevenueTotal }

\* authenticatedFetch(url) through a closure that holds the token tok: it throws
\* 'Not authenticated' without a request, or sends the request
authenticatedFetch(f, url, by, switch, tok) ==
    LET late == IF f.expired THEN 1 ELSE 0
    IN IF tok = ""
       THEN [f EXCEPT !.thrown = "Not authenticated", !.lateCalls = @ + late]
       ELSE [f EXCEPT !.open = Append(@, [url |-> url, by |-> by, switch |-> switch,
                                          token |-> tok]),
                      !.loads[switch] = IF url = UrlRevenueTotal THEN @ + 1 ELSE @,
                      !.lateCalls = @ + late, !.lateSent = @ + late]

\* logout()
logout(f) ==
    [f EXCEPT !.token = "", !.user = "", !.storage = [token |-> "", user |-> ""],
              !.pendingRender = TRUE]

\* login(newToken, newUser)
login(f, newToken, newUser) ==
    [f EXCEPT !.token = newToken, !.user = newUser,
              !.storage = [token |-> newToken, user |-> newUser],
              !.pendingRender = TRUE]

\* setActiveAccount(account) with an account object the state did not hold: the
\* next render runs the effect that depends on activeAccount
setActiveAccount(f, cause) ==
    [f EXCEPT !.pendingRender = TRUE, !.effectDue = TRUE, !.effectCause = cause]

\* the effect with the dependency [activeAccount]: hasFetchedRef guards loadData
LoadDataEffect(f, tok) ==
    IF f.hasFetched THEN f
    ELSE authenticatedFetch([f EXCEPT !.hasFetched = TRUE], UrlRevenueTotal, "effect",
                            f.effectCause, tok)

\* the Dashboard mounts: the effects of the first render run, loadAccounts first
FeMount ==
    /\ fe.phase = "init"
    /\ fe' = LoadDataEffect(
                 authenticatedFetch([fe EXCEPT !.phase = "mounted", !.effectCause = 0,
                                               !.loads = [n \in Loads |-> 0]],
                                    UrlAccounts, "mount", 0, fe.view),
                 fe.view)
    /\ UNCHANGED <<acct, faults, rt, sv, req, users, rp, file, call, mg>>

\* React renders with the state updates enqueued, then runs the effects whose
\* dependencies changed
FeRender ==
    /\ fe.phase = "mounted" /\ fe.pendingRender
    /\ LET f == [fe EXCEPT !.view = fe.token, !.pendingRender = FALSE, !.effectDue = FALSE,
                            !.accountsShown = fe.accounts]
       IN fe' = IF fe.effectDue THEN LoadDataEffect(f, fe.token) ELSE f
    /\ UNCHANGED <<acct, faults, rt, sv, req, users, rp, file, call, mg>>

\* the user picks an account of the list: handleSwitchAccount(accountId) up to its
\* first await: the data is reset, hasFetchedRef is cleared and the PUT is made
FeSwitchAccount ==
    /\ fe.phase = "mounted" /\ fe.accountsShown /\ fe.switches < MaxSwitches
    /\ fe' = authenticatedFetch([fe EXCEPT !.switches = @ + 1, !.hasFetched = FALSE],
                                UrlSwitch, "handler", fe.switches + 1, fe.view)
    /\ UNCHANGED <<acct, faults, rt, sv, req, users, rp, file, call, mg>>

\* the continuation of the caller after an answer that is not 401
Continue(f, c, status) ==
    IF status # 200 THEN f
    ELSE IF c.url = UrlAccounts
    THEN setActiveAccount([f EXCEPT !.accounts = TRUE], f.effectCause)
    ELSE IF c.url = UrlSwitch
    THEN authenticatedFetch(setActiveAccount([f EXCEPT !.switched = @ \cup {c.switch}],
                                             c.switch),
                            UrlRevenueTotal, "handler", c.switch, c.token)
    ELSE f

\* fe.open without its i-th request
Closed(f, i) ==
    [f EXCEPT !.open = SubSeq(@, 1, i - 1) \o SubSeq(@, i + 1, Len(@))]

\* the answer to a request arrives: on 401 authenticatedFetch logs out, leaves
\* the page and throws 'Session expired'; otherwise the caller goes on
FeResponse ==
    /\ fe.phase = "mounted"
    /\ \E i \in DOMAIN fe.open : \E status \in Statuses :
         fe' = IF status = 401
               THEN [logout(Closed(fe, i)) EXCEPT !.navigated = TRUE, !.expired = TRUE,
                                                   !.thrown = "Session expired",
                                                   !.lateCalls = 0, !.lateSent = 0]
               ELSE Continue(Closed(fe, i), fe.open[i], status)
    /\ UNCHANGED <<acct, faults, rt, sv, req, users, rp, file, call, mg>>

\* the navigation to '/' commits: the page is gone and the application starts
\* again from localStorage
FeNavigate ==
    /\ fe.phase = "mounted" /\ fe.navigated /\ ~fe.reloaded
    /\ fe' = [PageLoaded(fe) EXCEPT !.reloaded = TRUE]
    /\ UNCHANGED <<acct, faults, rt, sv, req, users, rp, file, call, mg>>

\* the login page calls login(token, user) and the router shows the Dashboard
FeLogin ==
    /\ fe.phase = "init" /\ fe.token = "" /\ ~fe.loggedIn
    /\ fe' = [login(fe, "t2", "u1") EXCEPT !.loggedIn = TRUE, !.view = "t2",
                                            !.pendingRender = FALSE, !.expired = FALSE]
    /\ UNCHANGED <<acct, faults, rt, sv, req, users, rp, file, call, mg>>

-----------------------------------------------------------------------------
(* The requests the model follows *)

\* the event lists of a metric: up to MaxEvents distinct events of a pool, in any order
RECURSIVE ListsOver(_, _)
ListsOver(pool, n) ==
    IF n = 0 THEN { << >> }
    ELSE LET shorter == ListsOver(pool, n - 1)
         IN shorter \cup { Append(l, e) : l \in shorter, e \in pool }

DistinctLists(pool, n) ==
    { l \in ListsOver(pool, n) : \A i, j \in DOMAIN l : i # j => l[i] # l[j] }

PlacedPool == { EventP1, EventP2, EventP3, EventP4, EventP5, EventP6 }
OpenPool == { EventO1, EventO2, EventO3, EventO4 }

\* accounts that vary the Placed Order events and the page size
PlacedAccounts ==
    { [BaseAccount EXCEPT !.placedEvents = l, !.pageSize = n] :
        l \in DistinctLists(PlacedPool, MaxEvents), n \in 1..MaxPageSize }

\* accounts that vary the engagement events, the metrics and the page size
OpenAccounts ==
    { [BaseAccount EXCEPT !.openEvents = l, !.clickEvents = k, !.metrics = ms, !.pageSize = n] :
        l \in DistinctLists(OpenPool, MaxEvents),
        k \in { << >>, << EventK1 >>, << EventK1, EventK2 >> },
        ms \in MetricLists, n \in 1..MaxPageSize }

AllHandlers == {"campaigns", "byStatus", "byStatus000", "byStatus001"}

FlowF4 == [id |-> "f4", status |-> StrLive]

\* the campaigns of a values-report request: ids by position, any mix of statuses
ReportIds == << "c1", "c2", "c3", "c4", "c5" >>
ReportCampaign(id, status, updated_at) ==
    [id |-> id, status |-> status, updated_at |-> updated_at, messages |-> << >>]
StatusPool == { StrSent, StrSentLower, StrDraftCapital }
ReportCampaignLists ==
    UNION { { [k \in 1..n |-> ReportCampaign(ReportIds[k], st[k], -2)] :
                st \in [1..n -> StatusPool] } : n \in 0..MaxReportItems }
\* SMS campaigns: none, a new one, one the email list also holds, and one updated
\* between 31 and 30 days before the request
ReportSmsLists ==
    { << >>, << ReportCampaign("s1", StrSent, -2) >>, << ReportCampaign("c1", StrSent, -2) >>,
      << ReportCampaign("s2", StrDraftCapital, -(FreshDays * TicksPerDay) - 1) >> }
ReportFlowLists ==
    { << >>, << FlowF1 >>, << FlowF1, FlowF4 >>, << FlowF1, FlowF2, FlowF4 >>,
      << FlowF2, FlowF1, FlowF3, FlowF4 >>, << FlowF2 >> }

\* accounts that vary what the values-report handlers read
ReportAccounts ==
    { [BaseAccount EXCEPT !.emailCampaigns = ec, !.smsCampaigns = sc, !.metrics = ms] :
        ec \in ReportCampaignLists, sc \in ReportSmsLists,
        ms \in { << MetricPO, MetricOE >>, << MetricOE >> } }
    \cup { [BaseAccount EXCEPT !.flows = fl] : fl \in ReportFlowLists }

ReportHandlers == {"campaigns001", "flows001"}

\* an attribution that names no campaign and no message
AttributionA2 == [id |-> "a2", attributed_message |-> "", campaign_id |-> "", message_id |-> ""]

\* the events extractCampaignId is applied to: every property and relationship it
\* reads is absent or present, each with a value of its own
ExtractEvents ==
    { [NoEvent EXCEPT !.id = "e1", !.message_interaction = mi, !.attributed_campaign = ac,
                      !.attributed_message = am, !.message = ms, !.campaign_id = ci,
                      !.Campaign_ID = cn, !.attributions = at, !.campaign = rc] :
        mi \in {"", "c1"}, ac \in {"", "c2"}, am \in {"", "c3"}, ms \in {"", "c4"},
        ci \in {"", "c5"}, cn \in {"", "c6"},
        at \in { << >>, << "a1" >>, << "a2", "a1" >>, << "a0", "a1" >> },
        rc \in {"", "c9"} }
ExtractIncluded == { << >>, << AttributionA1 >>, << AttributionA1, AttributionA2 >> }

\* metric lists in which a looser match precedes a stricter one, or stands alone
ResolutionLists ==
    { << MetricPORefund, MetricPO, MetricOE, MetricCE >>,
      << MetricPO, MetricPORefund, MetricOE, MetricCE >>,
      << MetricPOPlain, MetricPO, MetricOE >>,
      << MetricPORefund, MetricPOPlain, MetricCE >>,
      << MetricPORefund, MetricOE >>,
      << MetricPO, MetricOpenedPush, MetricOE, MetricCE >> }
ResolutionAccounts == { [BaseAccount EXCEPT !.metrics = ms] : ms \in ResolutionLists }

\* a request for the summary report against one upstream account
InitSummary ==
    /\ \/ acct \in RevenueAccounts /\ faults = 0
       \/ acct \in EngagementAccounts /\ faults = 0
       \/ acct \in FaultAccounts /\ faults \in 0..MaxFailures
    /\ rt = InitialRt
    /\ sv = IdleSv
    /\ req = [authorization |-> ValidHeader, reportAuthorization |-> ValidHeader]
    /\ users = << UserU1, UserU2 >>
    /\ rp = IdleRp
    /\ file = FileAtRest
    /\ call = NoCall
    /\ mg = IdleMg
    /\ fe = IdleFe

\* a request to one of the events handlers against one upstream account
InitEvents ==
    /\ \/ /\ acct \in PlacedAccounts
          /\ faults = 0
          /\ sv \in { InitialSv(h, "Placed Order") : h \in {"campaigns", "byStatus", "byStatus000"} }
       \/ /\ acct \in OpenAccounts \cup ResolutionAccounts
          /\ faults = 0
          /\ sv = InitialSv("campaigns", "Placed Order")
       \/ /\ acct \in FaultAccounts
          /\ faults \in 0..MaxFailures
          /\ sv \in { InitialSv(h, st) : h \in AllHandlers,
                                         st \in {"Placed Order", "Refunded Order"} }
    /\ rt = [InitialRt EXCEPT !.pc = "idle"]
    /\ req = [authorization |-> ValidHeader, reportAuthorization |-> ValidHeader]
    /\ users = << UserU1, UserU2 >>
    /\ rp = IdleRp
    /\ file = FileAtRest
    /\ call = NoCall
    /\ mg = IdleMg
    /\ fe = IdleFe

\* a request with any Authorization header to any of the servers
InitAuth ==
    /\ acct = BaseAccount
    /\ faults = 0
    /\ \/ rt = InitialRt /\ sv = IdleSv
       \/ /\ rt = [InitialRt EXCEPT !.pc = "idle"]
          /\ sv \in { InitialSv(h, "Placed Order") : h \in AllHandlers }
    /\ req \in { [authorization |-> h, reportAuthorization |-> h] : h \in AuthHeaders }
    /\ users \in { << >>, << UserU1 >>, << UserU1, UserU2 >> }
    /\ rp = IdleRp
    /\ file = FileAtRest
    /\ call = NoCall
    /\ mg = IdleMg
    /\ fe = IdleFe

\* a request to one of the values-report handlers against one upstream account
InitReports ==
    /\ \/ acct \in ReportAccounts \cup ResolutionAccounts /\ faults = 0
       \/ acct \in FaultAccounts /\ faults \in 0..MaxFailures
    /\ rt = [InitialRt EXCEPT !.pc = "idle"]
    /\ sv = IdleSv
    /\ req \in { [authorization |-> h, reportAuthorization |-> h] : h \in { ValidHeader, NoHeader } }
    /\ users = << UserU1, UserU2 >>
    /\ rp \in { InitialRp(h) : h \in ReportHandlers }
    /\ file = FileAtRest
    /\ call = NoCall
    /\ mg = IdleMg
    /\ fe = IdleFe

\* a summary request and a values-report request that run concurrently, each with
\* the token of one of the two users
InitConcurrent ==
    /\ acct = BaseAccount
    /\ faults = 0
    /\ rt = InitialRt
    /\ sv = IdleSv
    /\ req \in { [authorization |-> Header(StrBearer, TRUE, a),
                  reportAuthorization |-> Header(StrBearer, TRUE, b)] :
                    a \in {"u1", "u2"}, b \in {"u1", "u2"} }
    /\ users = << UserU1, UserU2 >>
    /\ rp = InitialRp("flows001")
    /\ file = FileAtRest
    /\ call = NoCall
    /\ mg = IdleMg
    /\ fe = IdleFe

\* an application of extractCampaignId, with no request running
InitExtract ==
    /\ acct = BaseAccount
    /\ faults = 0
    /\ rt = [InitialRt EXCEPT !.pc = "idle"]
    /\ sv = IdleSv
    /\ req = [authorization |-> ValidHeader, reportAuthorization |-> ValidHeader]
    /\ users = << UserU1, UserU2 >>
    /\ rp = IdleRp
    /\ file = FileAtRest
    /\ call \in { CallOf(e, inc) : e \in ExtractEvents, inc \in ExtractIncluded }
    /\ mg = IdleMg
    /\ fe = IdleFe

\* the stored users the account functions start from
UserU1Two ==
    [UserU1 EXCEPT !.klaviyoAccounts =
        << [id |-> "a1", name |-> "Default Account", apiKey |-> "k1", isActive |-> FALSE],
           [id |-> "a2", name |-> "New Account", apiKey |-> "k2", isActive |-> TRUE] >>]
StoredUsers == { << >>, << UserU1 >>, << UserU1, UserU2 >>, << UserU1Two, UserU2 >> }

\* calls of the account functions, one after the other or two at a time, with no
\* request to a report handler running
InitAccounts ==
    /\ acct = BaseAccount
    /\ faults = 0
    /\ rt = [InitialRt EXCEPT !.pc = "idle"]
    /\ sv = IdleSv
    /\ req = [authorization |-> ValidHeader, reportAuthorization |-> ValidHeader]
    /\ users \in StoredUsers
    /\ rp = IdleRp
    /\ file = FileAtRest
    /\ call = NoCall
    /\ mg \in { [IdleMg EXCEPT !.mode = m] : m \in {"sequential", "concurrent"} }
    /\ fe = IdleFe

\* a frontend session that starts with or without a stored login
InitFrontend ==
    /\ acct = BaseAccount
    /\ faults = 0
    /\ rt = [InitialRt EXCEPT !.pc = "idle"]
    /\ sv = IdleSv
    /\ req = [authorization |-> ValidHeader, reportAuthorization |-> ValidHeader]
    /\ users = << UserU1 >>
    /\ rp = IdleRp
    /\ file = FileAtRest
    /\ call = NoCall
    /\ mg = IdleMg
    /\ fe \in { PageLoaded([IdleFe EXCEPT !.storage = st]) :
                  st \in { [token |-> "", user |-> ""], [token |-> "t1", user |-> "u1"] } }

Init ==
    \/ InitSummary \/ InitEvents \/ InitAuth \/ InitReports \/ InitConcurrent
    \/ InitExtract \/ InitAccounts \/ InitFrontend

Next ==
    \/ RtAuthenticate
    \/ RtAuthSave
    \/ RtAuthWrite
    \/ RtMetrics
    \/ RtTotalRevenue
    \/ RtEngagementMetrics
    \/ RtFlowRevenue
    \/ RtFlowConversions
    \/ RtEmailCampaigns
    \/ RtSmsCampaigns
    \/ RtOpens
    \/ RtClicks
    \/ RtRecipients
    \/ RtCampaignRevenue
    \/ RtCampaignConversions
    \/ RtCountEmail
    \/ RtCountSms
    \/ RtFlowsCount
    \/ RtFlowsFetch
    \/ RtFlowOpens
    \/ RtFlowClicks
    \/ RtFlowRecipients
    \/ SvEmailCampaigns
    \/ SvSmsCampaigns
    \/ SvMetrics
    \/ SvPlacedPage
    \/ SvOpenPage
    \/ SvClickPage
    \/ SbAuthenticate
    \/ SbAuthSave
    \/ SbAuthWrite
    \/ SbMetrics
    \/ SbMetricsStandalone
    \/ SbMetricsAuth
    \/ SbEvents
    \/ SbEventsStandalone
    \/ RpAuthenticate
    \/ RpAuthSave
    \/ RpAuthWrite
    \/ RpEmailCampaigns
    \/ RpSmsCampaigns
    \/ RpMetrics
    \/ RpCampaignReport
    \/ RpCampaignDelay
    \/ RpFlows
    \/ RpFlowMetrics
    \/ RpFlowReport
    \/ RpFlowDelay
    \/ ExtractCampaignIdCall
    \/ MgTick
    \/ \E p \in Procs : MgInvoke(p)
    \/ \E p \in Procs : MgLoad(p)
    \/ \E p \in Procs : MgSave(p)
    \/ \E p \in Procs : MgWrite(p)
    \/ FeMount
    \/ FeRender
    \/ FeSwitchAccount
    \/ FeResponse
    \/ FeNavigate
    \/ FeLogin

Spec == Init /\ [][Next]_vars

-----------------------------------------------------------------------------
(* Properties of the summary report *)

\* the handler has answered
Done == rt.pc = "done"
\* the handler has answered with the report
Reported == rt.pc = "done" /\ rt.res.success

RowRevenue(rows) == SumSeq([k \in DOMAIN rows |-> rows[k].revenue])
RowIds(rows) == { rows[k].id : k \in DOMAIN rows }

\* C1: in every summary report the campaign rows' revenue plus the flow rows'
\* revenue is at most totalRevenue
C1_RowsWithinTotal ==
    Reported =>
        RowRevenue(rt.res.campaigns) + RowRevenue(rt.res.flows) <= rt.res.totalRevenue

\* a rate given as a fraction lies in [0, 100]
RateInRange(rate) == rate.num >= 0 /\ rate.num <= 100 * rate.den
\* the rates of a row are in range, and are 0 when the row has no recipients
RowRatesOk(row) ==
    /\ RateInRange(row.openRate)
    /\ RateInRange(row.clickRate)
    /\ row.recipients = 0 => row.openRate.num = 0 /\ row.clickRate.num = 0

\* C2: every campaign row and flow row of a report has openRate and clickRate
\* in [0, 100], and exactly 0 when the row's recipients count is 0
C2_RatesInRange ==
    Reported =>
        /\ \A k \in DOMAIN rt.res.campaigns : RowRatesOk(rt.res.campaigns[k])
        /\ \A k \in DOMAIN rt.res.flows : RowRatesOk(rt.res.flows[k])

\* the upstream metrics hold a metric named Placed Order in some letter case
HasPlacedOrderAnyCase ==
    \E i \in DOMAIN acct.metrics : ToLowerCase(acct.metrics[i].name) = StrPlacedOrderLower
\* the upstream metrics hold no conversion metric under any accepted name
HasNoConversionMetric ==
    \A i \in DOMAIN acct.metrics :
        /\ ~Includes(ToLowerCase(acct.metrics[i].name), StrPlacedOrderLower)
        /\ ToLowerCase(acct.metrics[i].name) # StrPlacedOrderDash

\* C4: the summary report resolves the conversion metric whatever the letter
\* case of its upstream name: with no upstream failure it answers with the report
C4_CaseInsensitiveMetric ==
    (Done /\ rt.res.status # 401 /\ rt.failed = {} /\ HasPlacedOrderAnyCase) => rt.res.success

\* the sum of the entries of a map over a list of ids, missing entries counting 0
EntrySum(map, ids) ==
    SumSeq([j \in DOMAIN ids |-> IF ids[j] \in DOMAIN map THEN map[ids[j]] ELSE 0])

\* a campaign that went through the per-campaign loop with at least one message id
HasKnownMessages(campaignId) ==
    /\ campaignId \in DOMAIN rt.campaignMetrics
    /\ MessageIdsOf(rt.filteredCampaigns, campaignId) # <<>>

\* C6: for a campaign with at least one known message id, the row's opens, clicks
\* and recipients are the sums over exactly its message ids of the engagement maps
C6_EngagementSums ==
    Reported =>
        \A k \in DOMAIN rt.res.campaigns :
            LET row == rt.res.campaigns[k]
                ids == MessageIdsOf(rt.filteredCampaigns, row.id)
            IN HasKnownMessages(row.id) =>
                 /\ row.opens = EntrySum(rt.messageOpensMap, ids)
                 /\ row.clicks = EntrySum(rt.messageClicksMap, ids)
                 /\ row.recipients = EntrySum(rt.messageRecipientsMap, ids)

\* a report with a row whose two messages both have opens, and whose campaign id
\* is no key of the opens map
C6_Witness ==
    /\ Reported
    /\ \E k \in DOMAIN rt.res.campaigns :
         /\ rt.res.campaigns[k].id = "c1"
         /\ HasKnownMessages("c1")
         /\ Get(rt.messageOpensMap, "m1") > 0
         /\ Get(rt.messageOpensMap, "m2") > 0
         /\ rt.res.campaigns[k].opens =
                Get(rt.messageOpensMap, "m1") + Get(rt.messageOpensMap, "m2")

\* C7: with no conversion metric upstream the summary still answers with a
\* report whose totalRevenue is 0 and whose rows carry zero revenue
C7_NoMetricStillReports ==
    (Done /\ rt.res.status # 401 /\ rt.failed = {} /\ HasNoConversionMetric) =>
        /\ rt.res.success
        /\ rt.res.totalRevenue = 0
        /\ RowRevenue(rt.res.campaigns) = 0
        /\ RowRevenue(rt.res.flows) = 0

\* the upstream flows whose status is draft in any letter case
DraftFlowIds == { acct.flows[i].id : i \in { j \in DOMAIN acct.flows :
                                               ToLowerCase(acct.flows[j].status) = StrDraft } }

\* C8: a draft flow is in no row of flows, and no revenue attributed to it is in
\* a revenue figure of the response
C8_DraftFlowsExcluded ==
    Reported =>
        \A f \in DraftFlowIds :
            /\ f \notin RowIds(rt.res.flows)
            /\ Get(rt.res.attributedFlowRevenue, f) = 0

\* every SMS fetch the handler issued has failed
SmsFetchFailed ==
    /\ "smsCampaigns" \in rt.failed
    /\ (\E j \in DOMAIN rt.calls : rt.calls[j] = "countSms") => "countSms" \in rt.failed

\* the email campaigns the upstream returns that pass the freshness filter
FreshEmailIds ==
    RowIds(FreshCampaigns(UpstreamCampaigns(acct.emailCampaigns, WindowStart)))

\* the first attributed Opened Email event exists and carries $event_id, so that
\* the log line of server.js after the drains does not throw
OpenLogLineOk ==
    LET kept == SelectSeq(acct.openEvents, HasAttribution)
    IN kept # << >> /\ kept[1].has_event_id

-----------------------------------------------------------------------------
(* Properties of the events handlers and of authentication *)

\* an events handler has answered with success after resolving its metric
EventsAnswered == sv.pc = "done" /\ sv.res.success /\ sv.metricId # Null

\* C3: every events fetch is a complete drain: the handler issues one request per
\* upstream page, the first without a cursor and each later one with the cursor of
\* the page before, and accumulates every event of the metric once, in page order
C3_DrainComplete ==
    EventsAnswered =>
        /\ sv.allEvents = EventsOf(acct, sv.metricId)
        /\ Len(sv.requests) >= 1
        /\ sv.requests[1] = 0
        /\ \A k \in 2..Len(sv.requests) : sv.requests[k] = k
        /\ Len(sv.requests) * acct.pageSize >= Len(EventsOf(acct, sv.metricId))

\* C5: a by-status answer resolves every event that carries both
\* $message_interaction and $attributed_campaign to the $message_interaction value
C5_InteractionFirst ==
    (sv.handler \in {"byStatus", "byStatus000", "byStatus001"} /\ sv.pc = "done"
        /\ sv.res.success) =>
        \A k \in DOMAIN sv.res.data :
            (sv.res.data[k].message_interaction # "" /\ sv.res.data[k].attributed_campaign # "")
                => sv.res.data[k].campaignId = sv.res.data[k].message_interaction

\* the request carries the token of an existing user in a Bearer header
Authorized ==
    /\ req.authorization.present
    /\ req.authorization.prefix = StrBearer
    /\ req.authorization.token.signed
    /\ \E i \in DOMAIN users : users[i].id = req.authorization.token.id

\* C9: a request that is not authorized is answered with 401 and success false by
\* every dashboard endpoint, and no upstream call is made for it
C9_AuthRequired ==
    ~Authorized =>
        /\ rt.pc = "done" => (rt.res.status = 401 /\ ~rt.res.success)
        /\ sv.pc = "done" => (sv.res.status = 401 /\ ~sv.res.success)
        /\ rt.calls = << >>
        /\ sv.calls = << >>

-----------------------------------------------------------------------------
(* Properties of the error handling of the summary report *)

\* the upstream calls of the summary whose data is optional: the secondary
\* channel and the engagement metrics
OptionalCalls ==
    {"smsCampaigns", "countSms", "metrics2", "opens", "clicks", "recipients",
     "flowOpens", "flowClicks", "flowRecipients"}

\* the upstream calls of the summary whose data is mandatory: the metrics lookup
\* of the conversion metric and the email campaign list
MandatoryCalls == {"metrics", "emailCampaigns"}

\* C11: a failed mandatory call (metrics lookup, email campaign list) is answered
\* with the error envelope and never with success; failures of optional calls
\* alone are never answered with the error envelope
C11_MandatoryFailurePropagates ==
    (Done /\ rt.res.status # 401) =>
        /\ (rt.failed \cap MandatoryCalls # {}) => (~rt.res.success /\ rt.res.status = 500)
        /\ (rt.failed # {} /\ rt.failed \subseteq OptionalCalls) => rt.res.success

\* the account has no metric of this name in any letter case
MetricAbsent(name) ==
    \A i \in DOMAIN acct.metrics : ToLowerCase(acct.metrics[i].name) # ToLowerCase(name)

\* the engagement metric is absent or has no events: in the aggregates the summary
\* reads, and in the events /api/campaigns of server.js reads
NoAggregateData(name, table) == MetricAbsent(name) \/ \A k \in DOMAIN table : table[k] = 0
NoEventData(name, events) == MetricAbsent(name) \/ events = << >>

\* every row of the table has 0 in each of the fields
RowsZero(rows, fields) == \A k \in DOMAIN rows : \A f \in fields : rows[k][f] = 0
\* every row of the table has the rate 0
RatesZero(rows, fields) == \A k \in DOMAIN rows : \A f \in fields : rows[k][f].num = 0

\* the summary answers with the report, and the figures of a metric without data are 0
SummaryDegradesToZero ==
    (Done /\ rt.res.status # 401 /\ rt.failed = {} /\ rt.placedOrderMetricId # Null) =>
        /\ rt.res.success
        /\ NoAggregateData(StrOpenedEmail, acct.eng.opens) =>
              /\ RowsZero(rt.res.campaigns, {"opens"}) /\ RowsZero(rt.res.flows, {"opens"})
              /\ RatesZero(rt.res.campaigns, {"openRate"})
              /\ RatesZero(rt.res.flows, {"openRate"})
        /\ NoAggregateData(StrClickedEmail, acct.eng.clicks) =>
              /\ RowsZero(rt.res.campaigns, {"clicks"}) /\ RowsZero(rt.res.flows, {"clicks"})
              /\ RatesZero(rt.res.campaigns, {"clickRate"})
              /\ RatesZero(rt.res.flows, {"clickRate"})
        /\ NoAggregateData(StrReceivedEmail, acct.eng.received) =>
              /\ RowsZero(rt.res.campaigns, {"recipients"})
              /\ RowsZero(rt.res.flows, {"recipients"})
              /\ RatesZero(rt.res.campaigns, {"openRate", "clickRate"})
              /\ RatesZero(rt.res.flows, {"openRate", "clickRate"})

\* /api/campaigns of server.js answers with the rows, and the figures of a metric
\* without data are 0
CampaignsDegradeToZero ==
    (sv.handler = "campaigns" /\ sv.pc = "done" /\ sv.failed = {}) =>
        /\ NoEventData(StrOpenedEmail, acct.openEvents) =>
              sv.res.success /\ RowsZero(sv.res.data, {"opens", "recipients"})
        /\ NoEventData(StrClickedEmail, acct.clickEvents) =>
              /\ (~MetricAbsent(StrOpenedEmail) /\ OpenLogLineOk) => sv.res.success
              /\ RowsZero(sv.res.data, {"clicks"})

\* C12: an engagement metric that is absent from the account, or has no events,
\* never produces an error answer: the report is answered with success and every
\* figure that depends on the metric is 0 in every row
C12_MissingEngagementIsZero ==
    /\ SummaryDegradesToZero
    /\ CampaignsDegradeToZero

-----------------------------------------------------------------------------
(* Properties of the values-report handlers *)

\* the positions of the report calls on the timeline
ReportCalls == { k \in DOMAIN rp.timeline : rp.timeline[k].kind = "report" }

\* two report calls with no report call between them
Successive(j, k) ==
    /\ j \in ReportCalls /\ k \in ReportCalls /\ j < k
    /\ \A m \in ReportCalls : ~(j < m /\ m < k)

\* C13: within one request the report calls are issued one after another, and
\* between two successive report calls a wait of WaitTime seconds lies that
\* starts after the first call has completed and ends before the second starts
C13_ReportCallsSpaced ==
    /\ \A k \in 2..Len(rp.timeline) : rp.timeline[k].start >= rp.timeline[k - 1].end
    /\ \A j, k \in DOMAIN rp.timeline :
          Successive(j, k) =>
              \E d \in (j + 1)..(k - 1) :
                  /\ rp.timeline[d].kind = "delay"
                  /\ rp.timeline[d].start >= rp.timeline[j].end
                  /\ rp.timeline[d].end - rp.timeline[d].start = WaitTime
                  /\ rp.timeline[k].start >= rp.timeline[d].end

\* an answered /api/campaigns request with two report calls around a campaign
\* that is not sent
C13_Witness ==
    /\ rp.handler = "campaigns001" /\ rp.pc = "done" /\ rp.res.success
    /\ Len(rp.items) = 3
    /\ rp.items[2].status = StrDraftCapital
    /\ Cardinality(ReportCalls) = 2
    /\ \E j, k \in ReportCalls : Successive(j, k) /\ rp.timeline[k].start >= rp.timeline[j].end + WaitTime

\* C14: a wait occurs only between report calls: the first entry of the timeline
\* is never a wait, and when the request is answered the last entry is not a wait
C14_DelayOnlyBetween ==
    rp.timeline # << >> =>
        /\ rp.timeline[1].kind = "report"
        /\ rp.pc = "done" => rp.timeline[Len(rp.timeline)].kind = "report"

-----------------------------------------------------------------------------
(* Properties of concurrent requests *)

\* the values-report request carries the token of an existing user in a Bearer header
AuthorizedReport ==
    /\ req.reportAuthorization.present
    /\ req.reportAuthorization.prefix = StrBearer
    /\ req.reportAuthorization.token.signed
    /\ \E i \in DOMAIN users : users[i].id = req.reportAuthorization.token.id

\* neither request has read, or written over, what the other request wrote
NoCrossing ==
    /\ "rp" \notin rt.readFrom \cup rt.overwrote
    /\ "rt" \notin rp.readFrom \cup rp.overwrote

\* an authorized request is answered as it is when it runs alone: not with 401
AnsweredAsAlone ==
    /\ (rt.pc = "done" /\ Authorized) => rt.res.status # 401
    /\ (rp.pc = "done" /\ AuthorizedReport) => rp.res.status # 401

\* C15: no shared mutable state crosses two concurrent authenticated report
\* requests: neither reads or writes state the other wrote, and each is answered
\* as it is when it runs alone
C15_NoSharedState ==
    /\ NoCrossing
    /\ AnsweredAsAlone

-----------------------------------------------------------------------------
(* Properties of the reporting window *)

\* the campaigns the two first campaign fetches of the summary returned
FetchedCampaigns ==
    UpstreamCampaigns(acct.emailCampaigns, rt.start)
        \o UpstreamCampaigns(acct.smsCampaigns, rt.start)

\* C16: in every summary report the window start sent upstream is 30 days before
\* the request, it is the threshold of the local freshness filter, and a fetched
\* campaign is a row of campaigns exactly when its updated_at is at or after it
C16_ThirtyDayWindow ==
    (Reported /\ rt.failed = {}) =>
        /\ rt.start = -(30 * TicksPerDay)
        /\ rt.start = -(FreshDays * TicksPerDay)
        /\ \A k \in DOMAIN FetchedCampaigns :
              FetchedCampaigns[k].id \in RowIds(rt.res.campaigns)
                  <=> FetchedCampaigns[k].updated_at >= rt.start

-----------------------------------------------------------------------------
(* Properties of the metric resolution and of the attribution chain *)

\* the metric the matching order chooses: the first exact match, else the first
\* match ignoring letter case, else the first whose name contains the canonical
\* name ignoring letter case, else none
ByMatchingOrder(metrics, name) ==
    LET exact == { i \in DOMAIN metrics : metrics[i].name = name }
        anyCase == { i \in DOMAIN metrics : ToLowerCase(metrics[i].name) = ToLowerCase(name) }
        contains == { i \in DOMAIN metrics :
                        Includes(ToLowerCase(metrics[i].name), ToLowerCase(name)) }
    IN IF exact # {} THEN metrics[FirstIndex(exact)]
       ELSE IF anyCase # {} THEN metrics[FirstIndex(anyCase)]
       ELSE IF contains # {} THEN metrics[FirstIndex(contains)]
       ELSE NoMetric

\* the handler has done its lookup of the Placed Order metric
SvLookedUp == sv.handler = "campaigns" /\ sv.metrics # << >>
RpLookedUp ==
    /\ rp.handler = "campaigns001"
    /\ \E k \in DOMAIN rp.calls : rp.calls[k] = "metrics"
    /\ "metrics" \notin rp.failed
\* the handler has done its lookups of the engagement metrics
SvEngagementLookedUp == SvLookedUp /\ sv.pc \in {"openPage", "clickPage"}

\* C17: the lookups of /api/campaigns choose the metric the matching order chooses
\* over the whole list: exact, else equal ignoring case, else containing
C17_MatchingOrder ==
    /\ SvLookedUp => sv.metricId = ByMatchingOrder(acct.metrics, StrPlacedOrder).id
    /\ RpLookedUp => rp.placedOrderMetricId = ByMatchingOrder(acct.metrics, StrPlacedOrder).id
    /\ SvEngagementLookedUp =>
          /\ (\E i \in DOMAIN acct.metrics : acct.metrics[i].name = StrOpenedEmail) =>
                sv.openedEmailMetricId = ByMatchingOrder(acct.metrics, StrOpenedEmail).id
          /\ (\E i \in DOMAIN acct.metrics : acct.metrics[i].name = StrClickedEmail) =>
                sv.clickedEmailMetricId = ByMatchingOrder(acct.metrics, StrClickedEmail).id

\* what each step of the attribution chain yields for the applied event, in the
\* order of the chain: message interaction, attributed campaign, attributed
\* message, raw campaign id keys, attributions side-table, campaign relationship
ChainSteps ==
    LET e == call.event
        found == FoundAttributions(e, call.included)
    IN << e.message_interaction,
          e.attributed_campaign,
          e.attributed_message,
          FirstTruthy(<< e.message, e.campaign_id, e.Campaign_ID >>),
          IF found = << >> THEN ""
          ELSE FirstTruthy(<< found[1].attributed_message, found[1].campaign_id,
                              found[1].message_id >>),
          e.campaign >>

-----------------------------------------------------------------------------
(* Properties of the campaign revenue of server.js *)

\* the campaigns request of server.js has answered with rows built from the events
RowsBuilt ==
    /\ sv.handler = "campaigns" /\ sv.pc = "done"
    /\ sv.res.status = 200 /\ sv.metricId # Null

\* the sum of $value of the fetched Placed Order events attributed to the campaign
ConversionRevenue(id) ==
    Get(SumByKey([i \in DOMAIN sv.events |-> sv.events[i].message_interaction],
                 [i \in DOMAIN sv.events |-> extractRevenue(sv.events[i])]), id)

\* the three components as the handler recorded them, a missing one counting 0
RecordedRevenue(id) ==
    Get(sv.attributionRevenue, id) + Get(CampaignClickRevenue(sv), id)
        + Get(CampaignOpenRevenue(sv), id)

\* the revenue of every row is the sum of the components the handler recorded
RevenueIsRecordedSum ==
    RowsBuilt => \A k \in DOMAIN sv.res.data :
        sv.res.data[k].revenue = RecordedRevenue(sv.res.data[k].id)

\* the conversion component the handler recorded is the attributed conversion revenue
ConversionIsRecorded ==
    RowsBuilt => \A k \in DOMAIN sv.res.data :
        Get(sv.attributionRevenue, sv.res.data[k].id) = ConversionRevenue(sv.res.data[k].id)

\* C19: the revenue of every campaign row is the conversion revenue attributed to
\* the campaign id plus its click-event revenue plus its open-event revenue, a
\* component without a recorded value counting as 0
C19_RowRevenue ==
    RowsBuilt => \A k \in DOMAIN sv.res.data :
        LET id == sv.res.data[k].id
        IN sv.res.data[k].revenue =
              ConversionRevenue(id) + Get(CampaignClickRevenue(sv), id)
                  + Get(CampaignOpenRevenue(sv), id)


-----------------------------------------------------------------------------
(* Properties of the attribution of a conversion event in the summary report *)

\* the revenue of the order is part of the revenue of a campaign row of the report:
\* the row of the campaign its $attributed_message names, filled by the aggregate
CountedInCampaignRow(o) ==
    /\ o.value > 0
    /\ \E k \in DOMAIN rt.res.campaigns :
         /\ rt.res.campaigns[k].id = OrderDim(o, "$attributed_message")
         /\ rt.res.campaigns[k].revenue > 0

\* the revenue of the order is part of the revenue of a flow row of the report
CountedInFlowRow(o) ==
    /\ o.value > 0
    /\ \E k \in DOMAIN rt.res.flows :
         /\ rt.res.flows[k].id = OrderDim(o, "$attributed_flow")
         /\ rt.res.flows[k].revenue > 0

\* C20: no conversion event has its revenue counted both in a campaign row and in
\* a flow row of the same summary report
C20_OneEntityPerEvent ==
    Reported => \A i \in DOMAIN acct.orders :
        ~(CountedInCampaignRow(acct.orders[i]) /\ CountedInFlowRow(acct.orders[i]))


-----------------------------------------------------------------------------
(* Properties of the events without an attribution key *)

\* the keys the events really carry: their non-empty $message_interaction values
InteractionKeys(events) ==
    { events[i].message_interaction : i \in DOMAIN events } \ {""}

\* the attribution maps of /api/campaigns of server.js hold an entry only under a
\* $message_interaction that some Placed Order event carries
NoInventedAttributionKey ==
    RowsBuilt =>
        /\ DOMAIN sv.attributionConversions \subseteq InteractionKeys(sv.events)
        /\ DOMAIN sv.attributionRevenue \subseteq InteractionKeys(sv.events)

\* the flow revenue map of the summary holds an entry only under a flow id that
\* some order carries, and the total still holds the revenue of every order
NoInventedFlowKey ==
    Reported =>
        /\ DOMAIN rt.res.attributedFlowRevenue \subseteq
               { acct.orders[i].attributed_flow : i \in DOMAIN acct.orders } \ {""}
        /\ rt.res.totalRevenue = SumSeq([i \in DOMAIN acct.orders |-> acct.orders[i].value])

\* C21: an event or grouped row whose attribution key is empty creates no entry in
\* any per-entity map and adds nothing to any entity's count or sum, while its
\* revenue is still part of the overall total
C21_NoKeyInvented ==
    NoInventedAttributionKey /\ NoInventedFlowKey


-----------------------------------------------------------------------------
(* Properties of the campaign-id fallback of the summary report *)

\* a campaign that went through the per-campaign loop without any message id
HasNoMessages(campaignId) ==
    /\ campaignId \in DOMAIN rt.campaignMetrics
    /\ MessageIdsOf(rt.filteredCampaigns, campaignId) = <<>>

\* the revenue the orders attribute to the campaign id, and the number of them
AttributedSum(campaignId) ==
    SumSeq([i \in DOMAIN acct.orders |->
              IF acct.orders[i].attributed_message = campaignId THEN acct.orders[i].value ELSE 0])
AttributedCount(campaignId) ==
    Cardinality({ i \in DOMAIN acct.orders : acct.orders[i].attributed_message = campaignId })

-----------------------------------------------------------------------------
(* Properties of the totals of the summary report *)

\* C23: in every summary report totalCampaigns is the number of campaign rows and
\* totalFlows is the number of flow rows, whichever of the repeated campaign and
\* flow fetches fail
C23_TotalsMatchRows ==
    Reported =>
        /\ rt.res.totalCampaigns = Len(rt.res.campaigns)
        /\ rt.res.totalFlows = Len(rt.res.flows)


-----------------------------------------------------------------------------
(* Properties of the account functions of auth.js *)

\* the calls were made one after the other, and the last one has returned or thrown
SequenceOver == mg.mode = "sequential" /\ ~Running(mg.procs["p1"])

\* the number of accounts of the user that are active
ActiveCount(user) ==
    Cardinality({ k \in DOMAIN user.klaviyoAccounts : user.klaviyoAccounts[k].isActive })

\* the account ids of every stored user are distinct
DistinctAccountIds ==
    \A i \in DOMAIN users :
        \A k, l \in DOMAIN users[i].klaviyoAccounts :
            users[i].klaviyoAccounts[k].id = users[i].klaviyoAccounts[l].id => k = l

\* C24: after any sequence of registerClient, addKlaviyoAccount,
\* switchKlaviyoAccount and deleteKlaviyoAccount calls every stored user with a
\* non-empty klaviyoAccounts list has exactly one active account
C24_OneActiveAccount ==
    SequenceOver =>
        \A i \in DOMAIN users :
            users[i].klaviyoAccounts # << >> => ActiveCount(users[i]) = 1


\* a report request of the user has been authenticated and has read its upstream
\* key, after an addKlaviyoAccount or switchKlaviyoAccount of that user succeeded
KeyReadAfterChange ==
    /\ SequenceOver
    /\ mg.procs["p1"].fn = "getUserApiKey" /\ mg.procs["p1"].error = ""
    /\ mg.procs["p1"].userId \in mg.activated

\* C25: the upstream key of a report request is the apiKey of the requesting
\* user's active account: after a successful switchKlaviyoAccount or
\* addKlaviyoAccount the next report request of the user uses the newly active key
C25_ActiveKeyUsed ==
    KeyReadAfterChange =>
        mg.procs["p1"].returns = ActiveApiKey(users, mg.procs["p1"].userId)


\* two concurrent callers have made one call each, and both calls are over
BothOver ==
    /\ mg.mode = "concurrent"
    /\ \A p \in Procs : mg.procs[p].pc = "done"

\* the accounts of the stored user, none when the user is not stored
AccountsOf(userId) ==
    IF UserIndex(users, userId) = 0 THEN << >>
    ELSE users[UserIndex(users, userId)].klaviyoAccounts

\* the other call succeeded and changed the accounts of the same user
ChangedBy(other, userId) ==
    /\ other.error = "" /\ other.userId = userId
    /\ other.fn \in {"addKlaviyoAccount", "switchKlaviyoAccount", "deleteKlaviyoAccount"}

\* the effect of a successful call is in the stored users; a change of a user's
\* accounts may have been undone only by the other call changing the same user
EffectPresent(op, other) ==
    CASE op.fn = "registerClient" ->
            \E i \in DOMAIN users : users[i].email = op.email /\ users[i].username = op.username
      [] op.fn = "addKlaviyoAccount" ->
            \/ \E k \in DOMAIN AccountsOf(op.userId) : AccountsOf(op.userId)[k].apiKey = op.apiKey
            \/ ChangedBy(other, op.userId) /\ other.fn = "deleteKlaviyoAccount"
      [] op.fn = "switchKlaviyoAccount" ->
            \/ \E k \in DOMAIN AccountsOf(op.userId) :
                 /\ AccountsOf(op.userId)[k].id = op.accountId
                 /\ AccountsOf(op.userId)[k].isActive
            \/ ChangedBy(other, op.userId)
      [] op.fn = "deleteKlaviyoAccount" ->
            \/ \A k \in DOMAIN AccountsOf(op.userId) : AccountsOf(op.userId)[k].id # op.accountId
            \/ ChangedBy(other, op.userId) /\ other.fn = "addKlaviyoAccount"
      [] OTHER -> TRUE

\* C26: under any interleaving of two concurrent calls, every call that returned
\* success has its effect in the stored users once both calls are over
C26_NoLostUpdate ==
    BothOver =>
        /\ mg.procs["p1"].error = "" => EffectPresent(mg.procs["p1"], mg.procs["p2"])
        /\ mg.procs["p2"].error = "" => EffectPresent(mg.procs["p2"], mg.procs["p1"])


-----------------------------------------------------------------------------
(* Properties of the frontend session *)

\* C27: the dashboard sends at most one /revenue/total request per data load, one
\* for the mount and exactly one for each successful switch, and no two
\* /revenue/total requests are in flight at the same time
C27_OneFetchPerLoad ==
    fe.phase = "mounted" =>
        /\ \A n \in Loads : fe.loads[n] <= 1
        /\ \A n \in fe.switched : fe.loads[n] = 1
        /\ Cardinality(OpenLoads(fe)) <= 1


\* the errors of the account functions
AccountErrors ==
    {"User not found", "This API key is already added", "No Klaviyo accounts found",
     "Account not found", "Cannot delete the only account"}

\* the last call of the sequence was an account change that threw
AccountChangeFailed ==
    /\ SequenceOver
    /\ mg.procs["p1"].fn \in {"addKlaviyoAccount", "switchKlaviyoAccount", "deleteKlaviyoAccount"}
    /\ mg.procs["p1"].error # ""

\* C28: addKlaviyoAccount, switchKlaviyoAccount and deleteKlaviyoAccount raise an
\* error and leave the stored users as they were, writing nothing, when they fail
C28_FailureWritesNothing ==
    AccountChangeFailed =>
        /\ mg.procs["p1"].error \in AccountErrors
        /\ users = mg.procs["p1"].atStart
        /\ ~mg.procs["p1"].wrote

\* deleting a user's only account has failed
C28_Witness ==
    /\ AccountChangeFailed
    /\ mg.procs["p1"].fn = "deleteKlaviyoAccount"
    /\ mg.procs["p1"].error = "Cannot delete the only account"
    /\ users = << UserU1 >>


\* no two stored users share an email, and no two share a username
UniqueUsers ==
    \A i, j \in DOMAIN users :
        (users[i].email = users[j].email \/ users[i].username = users[j].username) => i = j

\* the last call of the sequence was a registerClient whose email or username was
\* stored when it was made
DuplicateRegistration ==
    /\ SequenceOver
    /\ mg.procs["p1"].fn = "registerClient"
    /\ \E i \in DOMAIN mg.procs["p1"].atStart :
         \/ mg.procs["p1"].atStart[i].email = mg.procs["p1"].email
         \/ mg.procs["p1"].atStart[i].username = mg.procs["p1"].username

\* C29: after any sequence of calls no two stored users share an email or a
\* username, and a registerClient whose email or username is already stored fails
\* and leaves the stored users unchanged
C29_UniqueRegistration ==
    /\ SequenceOver => UniqueUsers
    /\ DuplicateRegistration =>
          /\ mg.procs["p1"].error \in {"User with this email already exists",
                                       "Username already taken"}
          /\ users = mg.procs["p1"].atStart
          /\ ~mg.procs["p1"].wrote

\* a registration was refused for its username after another one had succeeded
C29_Witness ==
    /\ DuplicateRegistration
    /\ mg.procs["p1"].error = "Username already taken"
    /\ \E i \in DOMAIN users : users[i].email = "e3" /\ users[i].username = "n3"


\* after a 401 and before the next login the session is cleared: the token and the
\* user are gone from the state of AuthProvider and from localStorage
SessionCleared ==
    fe.expired =>
        /\ fe.token = "" /\ fe.user = ""
        /\ fe.storage = [token |-> "", user |-> ""]

\* the call that received the 401 threw 'Session expired', and the calls after it
\* threw 'Not authenticated'
ExpiryThrown ==
    fe.expired =>
        fe.thrown = IF fe.lateCalls = 0 THEN "Session expired" ELSE "Not authenticated"

\* C30: when an authenticatedFetch call receives a 401 the session ends: token and
\* user are cleared from the state and from localStorage, the call throws
\* 'Session expired', and until login is called again every later
\* authenticatedFetch throws 'Not authenticated' without sending a request
C30_SessionEnds ==
    /\ SessionCleared
    /\ fe.expired => fe.lateSent = 0
    /\ ExpiryThrown

=============================================================================
